---- MODULE Spec2Model ----
(***************************************************************************)
(* Model of the map preprocessing pipeline of mc-Xmap:                     *)
(*   scripts/merge-map.cjs   layer registry, chunk grid, tile cache,       *)
(*                           chunk compositor.                             *)
(*   scripts/process-map.cjs conversion pool, tile-index.json.             *)
(*   scripts/generate-mip-pyramid.cjs   level grouping, parent tiles,      *)
(*                           manifest.json.                                *)
(* Strings are sequences of UTF-16 code units, so that toLowerCase, the    *)
(* regular expression /^map(\d+)$/i, parseInt and the < of JavaScript      *)
(* strings are computed as the code computes them.                         *)
(***************************************************************************)
EXTENDS Integers, Sequences, FiniteSets, TLC

VARIABLES
    pc,            \* position of the run being modelled
    entries,       \* getFolders: names returned by fs.readdir(baseDir)
    subdirs,       \* getFolders: the filtered, sorted folder names
    gridArgs,      \* createGrid: [x0, z0, x1, z1, chunkSize, baseX, baseZ]
    grid,          \* createGrid: [chunks, mapBound]
    layerFiles,    \* the source tree: folder name -> its image files, in getFiles order
    saveEmpty,     \* args.saveEmpty
    indexes,       \* DirFIndex.indexes: folder name -> TileRTreeIndex.tiles
    folderOrder,   \* main: the folders that have an index, in getFolders order
    chunks,        \* main: the chunk list of getChunks
    ci,            \* main: index of the chunk being processed (1-based)
    canvas,        \* mergeSingleChunk: the RGB buffer of the chunk
    wroteAny,      \* mergeSingleChunk
    touchedTiles,  \* mergeSingleChunk
    work,          \* mergeSingleChunk: tiles of areaTiles still to be applied
    saved,         \* the output directory: the chunks written, with their pixels
    nSaved,        \* main: saved
    nSkipped,      \* main: skipped
    usedTileRefs,  \* main: usedTileRefs
    cache,         \* TileCache.cache: entries [key, pid] in Map insertion order
    promises,      \* every promise loadRgbTile created: [key, state, value]
    waiting,       \* per compositing task: the promise it awaits, 0 when it runs,
                   \* -1 once an await threw
    calls,         \* history: the loadRgbTile calls made, [key, pid, early]
    lastUse,       \* history: per key, the time of its most recent insert or hit
    clock,         \* history: the number of loadRgbTile calls made
    lastEvicted,   \* history: the entry the eviction loop deleted last
    ppc,           \* process-map: position of main
    sourceFiles,   \* process-map: the png files of sourceDir whose names parse
    concurrency,   \* process-map: the concurrency argument
    cursor,        \* runPool: cursor
    running,       \* runPool: per worker the task it converts, 0 between two
                   \* tasks, -1 once its loop has ended
    builtTiles,    \* process-map: builtTiles
    converted,     \* process-map: converted
    failed,        \* process-map: failed
    indexFile,     \* the file tilesDir/tile-index.json
    tileFiles,     \* the image files under tilesDir: sourcePath -> [state, img]
    manifest,      \* the file tilesDir/mip/manifest.json
    maxLevels,     \* generate-mip-pyramid: the maxLevels argument
    levels,        \* generate-mip-pyramid: levels
    currentLevelTiles, \* generate-mip-pyramid: currentLevelTiles
    level,         \* generate-mip-pyramid: the loop variable level
    groups,        \* generate-mip-pyramid: groups
    gi,            \* generate-mip-pyramid: position in groups of the group being built
    ck,            \* buildParentTile: position in group.children of the next child
    composites,    \* buildParentTile: composites
    nextTiles,     \* generate-mip-pyramid: nextTiles
    reads,         \* history: the child files read, [level, path, state]
    written,       \* history: the sourcePaths of the files this run has written
    dirs,          \* the resolved directories of a run: [out, src], each a
                   \* sequence of path components, <<>> the filesystem root
    log,           \* process-map: the progress and summary lines printed
    workers,       \* merge-map: args.workers
    runners,       \* merge-map main: per pooled runner [state, idx, canvas,
                   \* wroteAny, touchedTiles]
    poolLog,       \* history of a worker pool: per work item, how often it was
                   \* claimed and how often its processing ended
    nextIndex,     \* merge-map main: nextIndex (0-based, as in the code)
    completed,     \* merge-map main: completed
    query,         \* TileRTreeIndex: the tiles added and the rectangle asked for
    found,         \* TileRTreeIndex: the answers of findByArea and findByCoordinate
    pipeline,      \* pipeline-map: [pos, mergeEnd, processEnd], the position of
                   \* main and what each child process ended in
    loader,        \* viewer, loadMissingTiles: [loadJobId, jobs, pendingRender, events]
    touch,         \* viewer, touch handling: [touches, isDragging, dragStart,
                   \* cameraStart, lastTouchDistance, lastTouchCenter, camera]
    prefix         \* merge-map: args.prefix

foldersVars == <<entries, subdirs>>
gridVars == <<gridArgs, grid>>
runVars == <<layerFiles, saveEmpty, indexes, folderOrder, chunks, ci, saved,
             nSaved, nSkipped, usedTileRefs>>
mergeVars == <<canvas, wroteAny, touchedTiles, work>>
cacheVars == <<cache, promises>>
taskVars == <<waiting, calls, lastUse, clock, lastEvicted>>
processVars == <<ppc, sourceFiles, concurrency, cursor, running, builtTiles,
                 converted, failed>>
diskVars == <<indexFile, tileFiles, manifest>>
levelVars == <<levels, currentLevelTiles, level, groups, nextTiles>>
buildVars == <<gi, ck, composites>>
pyramidVars == <<maxLevels, levelVars, buildVars, reads, written>>
poolVars == <<workers, runners, nextIndex, completed, poolLog>>
queryVars == <<query, found>>
sideVars == <<pipeline, loader, touch, prefix>>
extraVars == <<dirs, log, poolVars, queryVars, sideVars>>
vars == <<pc, entries, subdirs, gridArgs, grid, layerFiles, saveEmpty, indexes,
          folderOrder, chunks, ci, canvas, wroteAny, touchedTiles, work, saved,
          nSaved, nSkipped, usedTileRefs, cache, promises, waiting, calls,
          lastUse, clock, lastEvicted, ppc, sourceFiles, concurrency, cursor,
          running, builtTiles, converted, failed, indexFile, tileFiles, manifest,
          maxLevels, levels, currentLevelTiles, level, groups, gi, ck, composites,
          nextTiles, reads, written, dirs, log, workers, runners, nextIndex,
          completed, poolLog, query, found, pipeline, loader, touch,
          prefix>>

\* ---------------------------------------------------------------- bounds

\* Most directory entries fs.readdir returns in one listing.
MaxFolders == 3

\* createGrid inputs: x in -MaxCoordX..MaxCoordX, z in -MaxCoordZ..MaxCoordZ,
\* chunkSize in 1..MaxChunkSize, baseX in -MaxBaseX..MaxBaseX, baseZ in 0..MaxBaseZ.
MaxCoordX == 3
MaxCoordZ == 2
MaxChunkSize == 3
MaxBaseX == 2
MaxBaseZ == 1

\* args.tileSize (1024 by default), scaled down: a tile is TileSize x TileSize pixels.
TileSize == 2

\* Most layer folders of one merge run.
MaxLayers == 2

\* TileCache.maxSize (256 in a merge run), scaled down.
maxSize == 2

\* Concurrent compositing tasks (the runners of main) that share one TileCache.
NumTasks == 2

\* Most loadRgbTile calls in one behaviour of the cache.
MaxCalls == 4

\* ------------------------------------------------------- generic helpers

Min(a, b) == IF a < b THEN a ELSE b
Max(a, b) == IF a > b THEN a ELSE b

Range(s) == {s[i] : i \in DOMAIN s}

\* All sequences without repetition of at most n elements of S.
RECURSIVE DistinctSeqs(_, _)
DistinctSeqs(S, n) ==
    IF n = 0 THEN {<<>>}
    ELSE LET shorter == DistinctSeqs(S, n - 1)
         IN  shorter \cup {Append(s, e) : s \in {t \in shorter : Len(t) = n - 1},
                                          e \in S}

\* ------------------------------------------------ strings as code units

\* String.prototype.toLowerCase on the ASCII range.
ToLowerCase(s) == [i \in DOMAIN s |-> IF s[i] \in 65..90 THEN s[i] + 32 ELSE s[i]]

IsDigit(c) == c \in 48..57

\* a < b on JavaScript strings: lexicographic on code units.
RECURSIVE StrLess(_, _)
StrLess(a, b) ==
    IF b = <<>> THEN FALSE
    ELSE IF a = <<>> THEN TRUE
    ELSE IF Head(a) # Head(b) THEN Head(a) < Head(b)
    ELSE StrLess(Tail(a), Tail(b))

StartsWith(s, p) == Len(s) >= Len(p) /\ SubSeq(s, 1, Len(p)) = p

\* Number.parseInt(digits, 10) on a non-empty run of decimal digits.
RECURSIVE ParseInt(_)
ParseInt(d) ==
    IF d = <<>> THEN 0
    ELSE 10 * ParseInt(SubSeq(d, 1, Len(d) - 1)) + (d[Len(d)] - 48)

\* ----------------------------------------------------- layer registry

\* MAP_FOLDER_RE = /^map(\d+)$/i : the digits matched, or <<>> for no match.
MapFolderDigits(name) ==
    IF /\ Len(name) >= 4
       /\ ToLowerCase(SubSeq(name, 1, 3)) = <<109, 97, 112>>
       /\ \A i \in 4..Len(name) : IsDigit(name[i])
    THEN SubSeq(name, 4, Len(name))
    ELSE <<>>

\* The ascending key, which applies map0 first.
folderSortKey_Ascending(folderName) ==
    LET digits == MapFolderDigits(folderName)
    IN  IF digits # <<>>
        THEN <<0, ParseInt(digits), ToLowerCase(folderName)>>
        ELSE <<1, 0, ToLowerCase(folderName)>>

folderSortKey(folderName) ==
    LET digits == MapFolderDigits(folderName)
    IN  IF digits # <<>>
        THEN <<0, -ParseInt(digits), ToLowerCase(folderName)>>
        ELSE <<1, 0, ToLowerCase(folderName)>>

compareFolderName(a, b) ==
    LET ka == folderSortKey(a)
        kb == folderSortKey(b)
    IN  IF ka[1] # kb[1] THEN ka[1] - kb[1]
        ELSE IF ka[2] # kb[2] THEN ka[2] - kb[2]
        ELSE IF StrLess(ka[3], kb[3]) THEN -1
        ELSE IF StrLess(kb[3], ka[3]) THEN 1
        ELSE 0

\* Array.prototype.sort is stable: an element is placed after every element
\* already placed that does not compare greater than it.
RECURSIVE InsertSorted(_, _)
InsertSorted(sorted, e) ==
    IF sorted = <<>> THEN <<e>>
    ELSE IF compareFolderName(Head(sorted), e) > 0 THEN <<e>> \o sorted
    ELSE <<Head(sorted)>> \o InsertSorted(Tail(sorted), e)

RECURSIVE SortFolders(_)
SortFolders(names) ==
    IF names = <<>> THEN <<>>
    ELSE InsertSorted(SortFolders(SubSeq(names, 1, Len(names) - 1)), names[Len(names)])

\* The filter of getFolders: not hidden, lower-cased name starts with "map".
IsMapDir(name) ==
    /\ ~StartsWith(name, <<46>>)
    /\ StartsWith(ToLowerCase(name), <<109, 97, 112>>)

getFolders(listing) == SortFolders(SelectSeq(listing, IsMapDir))

\* Directory names a listing is drawn from:
\*   map0 map1 map5 map10 Map0 mapx mapB mapa tmp
FolderNames ==
    { <<109, 97, 112, 48>>, <<109, 97, 112, 49>>, <<109, 97, 112, 53>>,
      <<109, 97, 112, 49, 48>>, <<77, 97, 112, 48>>, <<109, 97, 112, 120>>,
      <<109, 97, 112, 66>>, <<109, 97, 112, 97>>, <<116, 109, 112>> }

NoGrid == [chunks |-> <<>>, mapBound |-> <<0, 0, 0, 0>>]
NoGridArgs == <<0, 0, 0, 0, 1, 0, 0>>

\* --------------------------------------------------- chunk grid builder

\* Math.floor(a / b) and Math.ceil(a / b) for integers a and b > 0.
FloorDiv(a, b) == a \div b
CeilDiv(a, b) == -((-a) \div b)

alignToChunk_Trunc(val, base, chunkSize, direction) ==
    LET offset == val - base
        trunc == IF offset >= 0 THEN FloorDiv(offset, chunkSize)
                 ELSE CeilDiv(offset, chunkSize)
    IN  IF direction = "down"
        THEN base + trunc * chunkSize
        ELSE base + CeilDiv(offset, chunkSize) * chunkSize

alignToChunk(val, base, chunkSize, direction) ==
    LET offset == val - base
    IN  IF direction = "down"
        THEN base + FloorDiv(offset, chunkSize) * chunkSize
        ELSE base + CeilDiv(offset, chunkSize) * chunkSize

createGrid(x0, z0, x1, z1, chunkSize, baseX, baseZ) ==
    LET alignedX0 == alignToChunk(x0, baseX, chunkSize, "down")
        alignedZ0 == alignToChunk(z0, baseZ, chunkSize, "down")
        alignedX1 == alignToChunk(x1, baseX, chunkSize, "up") + chunkSize - 1
        alignedZ1 == alignToChunk(z1, baseZ, chunkSize, "up") + chunkSize - 1
        startGx == FloorDiv(alignedX0 - baseX, chunkSize)
        endGx == FloorDiv(alignedX1 - baseX, chunkSize)
        startGz == FloorDiv(alignedZ0 - baseZ, chunkSize)
        endGz == FloorDiv(alignedZ1 - baseZ, chunkSize)
        nx == Max(endGx - startGx + 1, 0)
        nz == Max(endGz - startGz + 1, 0)
        \* for gz ... for gx ... chunks.push(...): row by row
        chunkAt(i) ==
            LET gx == startGx + ((i - 1) % nx)
                gz == startGz + ((i - 1) \div nx)
            IN  [gx |-> gx, gz |-> gz,
                 vx |-> baseX + gx * chunkSize, vz |-> baseZ + gz * chunkSize]
    IN  [chunks |-> [i \in 1..(nx * nz) |-> chunkAt(i)],
         mapBound |-> <<alignedX0, alignedZ0, alignedX1, alignedZ1>>]

\* ------------------------------------------------------ source images

\* args.baseX and args.baseZ: the defaults -512 and 0 for tileSize 1024.
BaseX == -(TileSize \div 2)
BaseZ == 0

Black == <<0, 0, 0>>
Red == <<255, 0, 0>>
Blue == <<0, 0, 255>>

\* The pixel at column x, row y of a source image, by the image's pattern.
PatternPixel(pattern, x, y) ==
    CASE pattern = "black" -> Black
      [] pattern = "red" -> Red
      [] pattern = "blue" -> Blue
      [] pattern = "redChecker" -> IF (x + y) % 2 = 0 THEN Red ELSE Black
      [] pattern = "blueStripe" -> IF x % 2 = 1 THEN Blue ELSE Black

\* readRgbTile, lines 548-552: the decoded image is not tileSize x tileSize and
\* the function throws.
readRgbTileThrows(file, tileSize) ==
    file.width # tileSize \/ file.height # tileSize

\* readRgbTile: the decoded tileSize x tileSize image as a flat RGB buffer,
\* byte ((y * tileSize + x) * 3 + channel).
readRgbTile(file, tileSize) ==
    [i \in 0..(tileSize * tileSize * 3 - 1) |->
        PatternPixel(file.pattern, (i \div 3) % tileSize, (i \div 3) \div tileSize)[(i % 3) + 1]]

\* --------------------------------------------------- spatial tile index

SetMin(S) == CHOOSE m \in S : \A e \in S : m <= e
SetMax(S) == CHOOSE m \in S : \A e \in S : m >= e

\* String(n) of an integer n, as UTF-16 code units.
RECURSIVE DigitsOf(_)
DigitsOf(n) ==
    IF n < 10 THEN <<48 + n>> ELSE Append(DigitsOf(n \div 10), 48 + (n % 10))

NumberToString(n) == IF n < 0 THEN <<45>> \o DigitsOf(-n) ELSE DigitsOf(n)

\* The end of the run of decimal digits that starts at position i of s.
RECURSIVE DigitsEnd(_, _)
DigitsEnd(s, i) ==
    IF i <= Len(s) /\ IsDigit(s[i]) THEN DigitsEnd(s, i + 1) ELSE i

\* The group (-?\d+) of COORD_RE matched at position i, with the value
\* Number.parseInt gives it and the position after it.
MatchInt(s, i) ==
    LET neg == i <= Len(s) /\ s[i] = 45
        from == IF neg THEN i + 1 ELSE i
        to == DigitsEnd(s, from)
        magnitude == ParseInt(SubSeq(s, from, to - 1))
    IN  [ok |-> to > from, value |-> IF neg THEN -magnitude ELSE magnitude, next |-> to]

NoCoords == [ok |-> FALSE, x |-> 0, z |-> 0]

\* COORD_RE = /x(-?\d+)_z(-?\d+)/ matched with the x at position i of s.
CoordMatchAt(s, i) ==
    IF i > Len(s) \/ s[i] # 120 THEN NoCoords
    ELSE LET mx == MatchInt(s, i + 1)
         IN  IF ~mx.ok \/ mx.next + 1 > Len(s) THEN NoCoords
             ELSE IF s[mx.next] # 95 \/ s[mx.next + 1] # 122 THEN NoCoords
             ELSE LET mz == MatchInt(s, mx.next + 2)
                  IN  IF mz.ok THEN [ok |-> TRUE, x |-> mx.value, z |-> mz.value]
                      ELSE NoCoords

\* getImgXZ on the stem of a file name: the leftmost match of COORD_RE, ok
\* FALSE for the [null, null] of a name without one.
getImgXZ(stem) ==
    LET starts == {i \in 1..Len(stem) : CoordMatchAt(stem, i).ok}
    IN  IF starts = {} THEN NoCoords ELSE CoordMatchAt(stem, SetMin(starts))

TileRef(filePath, x0, z0, tileSize) ==
    [filePath |-> filePath, x0 |-> x0, z0 |-> z0,
     x1 |-> x0 + tileSize - 1, z1 |-> z0 + tileSize - 1]

\* loadFolder that gives up at the first file whose name does not parse.
loadFolder_StopAtBad(folder, files, tileSize) ==
    LET Bad(i) == ~getImgXZ(files[i].name).ok
        bad == {i \in 1..Len(files) : Bad(i)}
        upTo == IF bad = {} THEN Len(files) ELSE SetMin(bad) - 1
    IN  [i \in 1..upTo |->
            TileRef(<<folder, i>>, getImgXZ(files[i].name).x, getImgXZ(files[i].name).z,
                    tileSize)]

\* DirFIndex.loadFolder: one TileRef per file of the folder whose name yields
\* coordinates, in getFiles order; filePath is the folder and the position of
\* the file in it. An empty result is a folder that gets no index.
loadFolder(folder, files, tileSize) ==
    LET Parsed(i) == getImgXZ(files[i].name).ok
        valid == SelectSeq([i \in 1..Len(files) |-> i], Parsed)
    IN  [k \in 1..Len(valid) |->
            TileRef(<<folder, valid[k]>>, getImgXZ(files[valid[k]].name).x,
                    getImgXZ(files[valid[k]].name).z, tileSize)]

\* TileRTreeIndex.findByCoordinate: the filePath of the first tile that holds the
\* point, null (here the empty path) when no tile does.
NullPath == <<>>

findByCoordinate(tiles, targetX, targetZ) ==
    LET Holds(tile) == /\ targetX >= tile.x0 /\ targetX <= tile.x1
                       /\ targetZ >= tile.z0 /\ targetZ <= tile.z1
        holding == SelectSeq(tiles, Holds)
    IN  IF holding = <<>> THEN NullPath ELSE Head(holding).filePath

\* findByArea without the Math.min / Math.max of its first four lines.
findByArea_AsGiven(tiles, areaX0, areaZ0, areaX1, areaZ1) ==
    LET Hit(tile) == ~(tile.x1 < areaX0 \/ tile.x0 > areaX1 \/ tile.z1 < areaZ0 \/ tile.z0 > areaZ1)
    IN  SelectSeq(tiles, Hit)

\* TileRTreeIndex.findByArea: the tiles the loop does not skip, in index order.
findByArea(tiles, areaX0, areaZ0, areaX1, areaZ1) ==
    LET minX == Min(areaX0, areaX1)
        maxX == Max(areaX0, areaX1)
        minZ == Min(areaZ0, areaZ1)
        maxZ == Max(areaZ0, areaZ1)
        Hit(tile) == ~(tile.x1 < minX \/ tile.x0 > maxX \/ tile.z1 < minZ \/ tile.z0 > maxZ)
    IN  SelectSeq(tiles, Hit)

getBounds(tiles) ==
    << SetMin({tiles[i].x0 : i \in DOMAIN tiles}), SetMin({tiles[i].z0 : i \in DOMAIN tiles}),
       SetMax({tiles[i].x1 : i \in DOMAIN tiles}), SetMax({tiles[i].z1 : i \in DOMAIN tiles}) >>

rectIntersection(ax0, az0, ax1, az1, bx0, bz0, bx1, bz1) ==
    LET ix0 == Max(ax0, bx0)
        iz0 == Max(az0, bz0)
        ix1 == Min(ax1, bx1)
        iz1 == Min(az1, bz1)
    IN  IF ix0 > ix1 \/ iz0 > iz1 THEN <<>> ELSE <<ix0, iz0, ix1, iz1>>

getChunks(idx, order, tileSize, baseX, baseZ) ==
    LET bounds == [i \in DOMAIN order |-> getBounds(idx[order[i]])]
        allX == {bounds[i][1] : i \in DOMAIN order} \cup {bounds[i][3] : i \in DOMAIN order}
        allZ == {bounds[i][2] : i \in DOMAIN order} \cup {bounds[i][4] : i \in DOMAIN order}
    IN  IF allX = {} \/ allZ = {} THEN <<>>
        ELSE createGrid(SetMin(allX), SetMin(allZ), SetMax(allX), SetMax(allZ),
                        tileSize, baseX, baseZ).chunks

\* ---------------------------------------------------- decoded-tile cache

CacheIndex(c, key) == {i \in DOMAIN c : c[i].key = key}
CacheHas(c, key) == CacheIndex(c, key) # {}
CacheGet(c, key) == c[CHOOSE i \in CacheIndex(c, key) : TRUE].pid

\* A delete that leaves the Map as it is.
CacheDelete_Keep(c, key) == c

\* Map.prototype.delete
CacheDelete(c, key) ==
    LET Keep(e) == e.key # key IN SelectSeq(c, Keep)

\* Map.prototype.set: a new key goes to the end of the Map's order, a key
\* already present keeps its place.
CacheSet(c, key, pid) ==
    IF CacheHas(c, key)
    THEN [i \in DOMAIN c |-> IF c[i].key = key THEN [key |-> key, pid |-> pid] ELSE c[i]]
    ELSE Append(c, [key |-> key, pid |-> pid])

\* A hit that returns the value and leaves the Map's order alone.
CacheRefresh_NoMove(c, key) == c

\* loadRgbTile on a hit: delete the key and set it again, which moves it to the
\* end of the Map's order.
CacheRefresh(c, key) ==
    CacheSet(CacheDelete(c, key), key, CacheGet(c, key))

\* The loop with its bound off by one.
RECURSIVE CacheEvict_OffByOne(_)
CacheEvict_OffByOne(c) ==
    IF Len(c) > maxSize + 1 THEN CacheEvict_OffByOne(Tail(c)) ELSE c

\* while (this.cache.size > this.maxSize) delete the first key
RECURSIVE CacheEvict(_)
CacheEvict(c) ==
    IF Len(c) > maxSize THEN CacheEvict(Tail(c)) ELSE c

\* loadRgbTile on a miss: a new promise is set under the key, then the oldest
\* entries are deleted.
CacheInsert(c, key, pid) ==
    CacheEvict(CacheSet(c, key, pid))

\* ------------------------------------------------------ chunk compositor

\* No pixel is skipped.
IsSentinel_Never(r, g, b) == FALSE

\* Only the red channel is tested.
IsSentinel_RedOnly(r, g, b) == r = 0

\* if (r === 0 && g === 0 && b === 0) continue
IsSentinel(r, g, b) == r = 0 /\ g = 0 /\ b = 0

\* The pixel loops of mergeSingleChunk from iteration k on, in loop order
\* (y outer, x inner): [canvas, wrote].
RECURSIVE CopyPixels(_, _, _, _, _, _, _, _, _, _)
CopyPixels(cv, wrote, srcImg, k, width, height, srcX0, srcY0, dstX0, dstY0) ==
    IF k >= width * height THEN [canvas |-> cv, wrote |-> wrote]
    ELSE
        LET y == k \div width
            x == k % width
            srcIdx == ((srcY0 + y) * TileSize + srcX0) * 3 + x * 3
            dstIdx == ((dstY0 + y) * TileSize + dstX0) * 3 + x * 3
            r == srcImg[srcIdx]
            g == srcImg[srcIdx + 1]
            b == srcImg[srcIdx + 2]
        IN  IF IsSentinel(r, g, b)
            THEN CopyPixels(cv, wrote, srcImg, k + 1, width, height,
                            srcX0, srcY0, dstX0, dstY0)
            ELSE CopyPixels([cv EXCEPT ![dstIdx] = r, ![dstIdx + 1] = g, ![dstIdx + 2] = b],
                            TRUE, srcImg, k + 1, width, height,
                            srcX0, srcY0, dstX0, dstY0)

\* One iteration of the tile loop of mergeSingleChunk, after rectIntersection
\* returned inter and the tile cache returned srcImg: [canvas, wrote].
CopyTile(cv, srcImg, inter, tileRef, chunkX0, chunkZ0) ==
    LET srcX0 == inter[1] - tileRef.x0
        srcY0 == inter[2] - tileRef.z0
        srcX1 == inter[3] - tileRef.x0 + 1
        srcY1 == inter[4] - tileRef.z0 + 1
        dstX0 == inter[1] - chunkX0
        dstY0 == inter[2] - chunkZ0
        width == srcX1 - srcX0
        height == srcY1 - srcY0
    IN  CopyPixels(cv, FALSE, srcImg, 0, width, height, srcX0, srcY0, dstX0, dstY0)

\* folderIndexer.queryArea followed by the folder loop: the tiles of every
\* folder that overlap the chunk, folder by folder in folderOrder.
RECURSIVE AreaTiles(_, _, _, _, _, _)
AreaTiles(idx, order, x0, z0, x1, z1) ==
    IF order = <<>> THEN <<>>
    ELSE findByArea(idx[Head(order)], x0, z0, x1, z1)
         \o AreaTiles(idx, Tail(order), x0, z0, x1, z1)

\* ------------------------------------------- specification: getFolders

\* The variables of the merge run, before the run.
RunIdle ==
    /\ layerFiles = <<>>
    /\ saveEmpty = FALSE
    /\ indexes = <<>>
    /\ folderOrder = <<>>
    /\ chunks = <<>>
    /\ ci = 0
    /\ canvas = <<>>
    /\ wroteAny = FALSE
    /\ touchedTiles = 0
    /\ work = <<>>
    /\ saved = <<>>
    /\ nSaved = 0
    /\ nSkipped = 0
    /\ usedTileRefs = 0

NoEntry == [key |-> 0, pid |-> 0]

NoIndexFile == [exists |-> FALSE, tiles |-> <<>>, minX |-> 0, maxX |-> 0,
                minZ |-> 0, maxZ |-> 0]
NoManifest == [state |-> "none", levels |-> <<>>]

\* The variables of process-map, before a run.
ProcessIdle ==
    /\ ppc = "idle"
    /\ sourceFiles = <<>>
    /\ concurrency = 0
    /\ cursor = 0
    /\ running = <<>>
    /\ builtTiles = <<>>
    /\ converted = 0
    /\ failed = 0

\* The variables of generate-mip-pyramid, before a run.
PyramidIdle ==
    /\ maxLevels = 0
    /\ levels = <<>>
    /\ currentLevelTiles = <<>>
    /\ level = 0
    /\ groups = <<>>
    /\ gi = 0
    /\ ck = 0
    /\ composites = <<>>
    /\ nextTiles = <<>>
    /\ reads = {}
    /\ written = {}

\* No output directory.
DiskIdle ==
    /\ indexFile = NoIndexFile
    /\ tileFiles = <<>>
    /\ manifest = NoManifest

\* path.resolve of an absolute path given as its components: "." is dropped,
\* ".." removes the component before it and is dropped at the root.
RECURSIVE resolveFrom(_, _)
resolveFrom(base, parts) ==
    IF parts = <<>> THEN base
    ELSE IF Head(parts) = "." THEN resolveFrom(base, Tail(parts))
    ELSE IF Head(parts) = ".."
         THEN resolveFrom(IF base = <<>> THEN <<>> ELSE SubSeq(base, 1, Len(base) - 1),
                          Tail(parts))
    ELSE resolveFrom(Append(base, Head(parts)), Tail(parts))

resolve(parts) == resolveFrom(<<>>, parts)

\* path.parse(p).root of a resolved path.
Root == <<>>

\* No directories, for the parts of the program that take none.
NoDirs == [out |-> <<"out">>, src |-> <<"src">>]

NoQuery == [tiles |-> <<>>, x0 |-> 0, z0 |-> 0, x1 |-> 0, z1 |-> 0]
NoAnswer == [asked |-> FALSE, area |-> <<>>, swapped |-> <<>>, point |-> <<>>,
             pointArea |-> <<>>]

\* The pooled runners of merge-map, before the pool starts.
NoPoolLog == [claimed |-> <<>>, done |-> <<>>]

\* The history after a worker has taken item i (no item for i < 1), and after
\* the processing of item i has ended.
logClaim(l, i) ==
    IF i < 1 THEN l ELSE [l EXCEPT !.claimed[i] = @ + 1]
logDone(l, i) == [l EXCEPT !.done[i] = @ + 1]

PoolIdle ==
    /\ workers = 1
    /\ poolLog = NoPoolLog
    /\ runners = <<>>
    /\ nextIndex = 0
    /\ completed = 0

QueryIdle ==
    /\ query = NoQuery
    /\ found = NoAnswer

\* No pipeline, no viewer.
NoPipeline == [pos |-> "off", mergeEnd |-> "", processEnd |-> ""]
NoLoader == [loadJobId |-> 0, zoom |-> 100, jobs |-> <<>>, pendingRender |-> FALSE,
             did |-> {}]
\* A number of the viewer: the fraction n / d in lowest terms, d > 0.
Whole(k) == [n |-> k, d |-> 1]
\* mapStore.ts, lines 11-15: defaultCamera.
DefaultCamera == [x |-> Whole(0), z |-> Whole(0), zoom |-> Whole(1)]
\* The interaction state before the first event; null is the empty sequence, an object a
\* sequence of one record.
NoTouch == [touches |-> <<>>, isDragging |-> FALSE, dragStart |-> <<>>,
            cameraStart |-> <<>>, lastTouchDistance |-> 0, lastTouchCenter |-> <<>>,
            camera |-> DefaultCamera,
            mouseWorldCoord |-> [x |-> Whole(0), z |-> Whole(0)], index |-> <<>>,
            events |-> 0]
\* args.prefix, line 61: "chunk".
DefaultPrefix == <<99, 104, 117, 110, 107>>
SideIdle ==
    /\ pipeline = NoPipeline
    /\ loader = NoLoader
    /\ touch = NoTouch
    /\ prefix = DefaultPrefix

ExtraIdle ==
    /\ dirs = NoDirs
    /\ log = <<>>
    /\ PoolIdle
    /\ QueryIdle
    /\ SideIdle

CacheIdle ==
    /\ cache = <<>>
    /\ promises = <<>>
    /\ waiting = <<>>
    /\ calls = {}
    /\ lastUse = <<>>
    /\ clock = 0
    /\ lastEvicted = NoEntry

FoldersInit ==
    /\ pc = "listed"
    /\ entries \in {s \in DistinctSeqs(FolderNames, MaxFolders) : Len(s) >= 1}
    /\ subdirs = <<>>
    /\ gridArgs = NoGridArgs
    /\ grid = NoGrid
    /\ RunIdle
    /\ CacheIdle
    /\ ProcessIdle
    /\ PyramidIdle
    /\ DiskIdle
    /\ ExtraIdle

GetFolders ==
    /\ pc = "listed"
    /\ subdirs' = getFolders(entries)
    /\ pc' = "sorted"
    /\ UNCHANGED <<extraVars, processVars, diskVars, pyramidVars, entries, gridVars, runVars, mergeVars, cacheVars, taskVars>>

FoldersNext == GetFolders

SpecFolders == FoldersInit /\ [][FoldersNext]_vars

IsNumbered(name) == MapFolderDigits(name) # <<>>

\* C2: the order getFolders produces is total on distinct folder names: every
\* map<N> folder comes before every folder without a numeric suffix, the
\* map<N> folders are in descending N, the others in ascending (lower-cased)
\* name order, and no two distinct names compare as equal.
C2_TotalOrder ==
    pc = "sorted" =>
        /\ \A i, j \in DOMAIN subdirs :
              i < j =>
                  /\ IsNumbered(subdirs[j]) => IsNumbered(subdirs[i])
                  /\ (IsNumbered(subdirs[i]) /\ IsNumbered(subdirs[j]))
                        => ParseInt(MapFolderDigits(subdirs[i]))
                               >= ParseInt(MapFolderDigits(subdirs[j]))
                  /\ (~IsNumbered(subdirs[i]) /\ ~IsNumbered(subdirs[j]))
                        => ~StrLess(ToLowerCase(subdirs[j]), ToLowerCase(subdirs[i]))
        /\ \A i, j \in DOMAIN subdirs :
              i # j => compareFolderName(subdirs[i], subdirs[j]) # 0

\* ------------------------------------------- specification: createGrid

GridInit ==
    /\ pc = "args"
    /\ \E x0, x1 \in -MaxCoordX..MaxCoordX, z0, z1 \in -MaxCoordZ..MaxCoordZ,
          chunkSize \in 1..MaxChunkSize, baseX \in -MaxBaseX..MaxBaseX,
          baseZ \in 0..MaxBaseZ :
            /\ x0 <= x1
            /\ z0 <= z1
            /\ gridArgs = <<x0, z0, x1, z1, chunkSize, baseX, baseZ>>
    /\ grid = NoGrid
    /\ entries = <<>>
    /\ subdirs = <<>>
    /\ RunIdle
    /\ CacheIdle
    /\ ProcessIdle
    /\ PyramidIdle
    /\ DiskIdle
    /\ ExtraIdle

CreateGrid ==
    /\ pc = "args"
    /\ grid' = createGrid(gridArgs[1], gridArgs[2], gridArgs[3], gridArgs[4],
                          gridArgs[5], gridArgs[6], gridArgs[7])
    /\ pc' = "gridded"
    /\ UNCHANGED <<extraVars, processVars, diskVars, pyramidVars, gridArgs, foldersVars, runVars, mergeVars, cacheVars, taskVars>>

GridNext == CreateGrid

SpecGrid == GridInit /\ [][GridNext]_vars

\* The rectangle [vx, vx+chunkSize-1] x [vz, vz+chunkSize-1] of a chunk.
InChunk(c, chunkSize, x, z) ==
    /\ c.vx <= x /\ x <= c.vx + chunkSize - 1
    /\ c.vz <= z /\ z <= c.vz + chunkSize - 1

\* C6: every emitted chunk has vx = baseX + gx*chunkSize and
\* vz = baseZ + gz*chunkSize, and every integer point of the input bounding
\* box lies in the rectangle of exactly one emitted chunk.
C6_GridCoversExactlyOnce ==
    pc = "gridded" =>
        LET cs == gridArgs[5]
            emitted == grid.chunks
        IN  /\ \A i \in DOMAIN emitted :
                  /\ emitted[i].vx = gridArgs[6] + emitted[i].gx * cs
                  /\ emitted[i].vz = gridArgs[7] + emitted[i].gz * cs
            /\ \A x \in gridArgs[1]..gridArgs[3], z \in gridArgs[2]..gridArgs[4] :
                  Cardinality({i \in DOMAIN emitted : InChunk(emitted[i], cs, x, z)}) = 1

\* A grid whose lower corner lies below the origin in x and in z, with a
\* bounding box spanning more than one chunk.
C6_Witness ==
    /\ pc = "gridded"
    /\ gridArgs[1] < gridArgs[6]
    /\ gridArgs[2] < gridArgs[7]
    /\ gridArgs[3] - gridArgs[1] >= gridArgs[5]
    /\ Len(grid.chunks) >= 4

\* C7: the grid extends the bounding box only to the nearest chunk boundary,
\* so every emitted chunk's rectangle intersects the input bounding box.
C7_EveryChunkMeetsBox ==
    pc = "gridded" =>
        \A i \in DOMAIN grid.chunks :
            \E x \in gridArgs[1]..gridArgs[3], z \in gridArgs[2]..gridArgs[4] :
                InChunk(grid.chunks[i], gridArgs[5], x, z)

\* --------------------------------------- specification: a serial merge run

\* map0 map1 map5 mapx
MergeFolderNames ==
    { <<109, 97, 112, 48>>, <<109, 97, 112, 49>>, <<109, 97, 112, 53>>,
      <<109, 97, 112, 120>> }

\* The stem t_x<x>_z<z> of a source image.
tileName(x, z) ==
    <<116, 95, 120>> \o NumberToString(x) \o <<95, 122>> \o NumberToString(z)

\* A stem COORD_RE does not match: x1_y2.
BadName == <<120, 49, 95, 121, 50>>

\* A source image named t_x<x>_z<z>, with the pattern and the dimensions its
\* decode yields.
File(x, z, pattern) ==
    [name |-> tileName(x, z), pattern |-> pattern, width |-> TileSize, height |-> TileSize]

\* A source image one pixel wider than a tile.
WrongSizeFile(x, z, pattern) ==
    [name |-> tileName(x, z), pattern |-> pattern, width |-> TileSize + 1,
     height |-> TileSize]

\* A source image whose name holds no coordinates.
UnnamedFile(pattern) ==
    [name |-> BadName, pattern |-> pattern, width |-> TileSize, height |-> TileSize]

\* The tile position of the scenario of the spec, (512, 0) for tileSize 1024:
\* one chunk east of the grid origin; and a position off the grid by one pixel
\* in x and in z.
AlignedX == BaseX + TileSize
ShiftedX == BaseX + TileSize + 1
ShiftedZ == BaseZ + 1

\* The contents a layer folder is drawn from.
LayerContents ==
    { <<>>,
      <<File(AlignedX, BaseZ, "red")>>,
      <<File(AlignedX, BaseZ, "blue")>>,
      <<File(AlignedX, BaseZ, "black")>>,
      <<File(AlignedX, BaseZ, "redChecker")>>,
      <<WrongSizeFile(AlignedX, BaseZ, "red")>>,
      <<File(ShiftedX, ShiftedZ, "blueStripe")>>,
      <<File(AlignedX, BaseZ, "blueStripe"), File(ShiftedX, ShiftedZ, "redChecker")>> }

\* The contents of a layer folder that matter to loadFolder: no image, an
\* image with coordinates, an image without, and one without followed by one
\* with.
RegistryContents ==
    { <<>>,
      <<File(AlignedX, BaseZ, "red")>>,
      <<UnnamedFile("red")>>,
      <<UnnamedFile("red"), File(AlignedX, BaseZ, "blue")>> }

\* clearOutputDir, lines 714-721: the two refusals.
clearOutputDirThrows(outputDir, basePath) ==
    LET resolvedOut == resolve(outputDir)
        resolvedBase == resolve(basePath)
    IN  resolvedOut = resolvedBase \/ resolvedOut = Root

\* clearOutputDir, lines 739-743 (and the mkdir of line 728 when the directory
\* does not exist): every child is removed.
clearOutputDir(children) == <<>>

\* The --base-path and --output-dir arguments: the defaults, the output
\* directory naming the base directory directly and through "..", and naming
\* the root. stale tells whether an earlier run left a chunk in it.
MergeBasePath == <<"map">>

\* path.join(baseDir, folder): the path component of a layer folder's name.
dirName(folder) ==
    CASE folder = <<109, 97, 112, 48>> -> "map0"
      [] folder = <<109, 97, 112, 49>> -> "map1"
      [] folder = <<109, 97, 112, 53>> -> "map5"
      [] OTHER -> "mapx"

\* A path lies inside a directory when the directory's resolved components begin it.
isInside(dir, path) ==
    Len(dir) <= Len(path) /\ SubSeq(path, 1, Len(dir)) = dir

\* A source image whose file is gone: sharp cannot open it, no size matches.
removed(file) == [file EXCEPT !.width = 0, !.height = 0]

\* clearOutputDir, lines 735-743: fs.rm of every child of the output directory, recursive and
\* forced; the images of a layer folder that lies inside the output directory go with them.
layersAfterClear(files, outputDir, basePath) ==
    [f \in DOMAIN files |->
        IF isInside(resolve(outputDir), resolve(basePath \o <<dirName(f)>>))
        THEN [i \in DOMAIN files[f] |-> removed(files[f][i])]
        ELSE files[f]]
DefaultDirs == [out |-> <<"map", "merged_map">>, stale |-> FALSE]
MergeDirs ==
    { DefaultDirs,
      [out |-> <<"map", "merged_map">>, stale |-> TRUE],
      [out |-> <<"map">>, stale |-> TRUE],
      [out |-> <<"map", "merged_map", "..">>, stale |-> TRUE],
      [out |-> <<"..">>, stale |-> TRUE] }

\* A chunk file of an earlier run, far west of every chunk of this one.
StaleChunk ==
    [gx |-> -9, gz |-> 0, vx |-> BaseX - 9 * TileSize, vz |-> BaseZ,
     img |-> [i \in 0..(TileSize * TileSize * 3 - 1) |-> Blue[(i % 3) + 1]]]

\* A listing in ascending name order, as a directory scan commonly returns it.
IsAscending(s) == \A i \in 1..(Len(s) - 1) : StrLess(s[i], s[i + 1])

MergeInitIn(Dirs) ==
    /\ pc = "start"
    /\ entries \in {s \in DistinctSeqs(MergeFolderNames, MaxLayers) :
                        Len(s) >= 1 /\ IsAscending(s)}
    /\ layerFiles \in [Range(entries) -> LayerContents]
    /\ saveEmpty \in BOOLEAN
    /\ subdirs = <<>>
    /\ gridArgs = NoGridArgs
    /\ grid = NoGrid
    /\ indexes = <<>>
    /\ folderOrder = <<>>
    /\ chunks = <<>>
    /\ ci = 0
    /\ canvas = <<>>
    /\ wroteAny = FALSE
    /\ touchedTiles = 0
    /\ work = <<>>
    /\ \E d \in Dirs :
          /\ Len(entries) > 1 => d = DefaultDirs
          /\ dirs = [out |-> d.out, src |-> MergeBasePath]
          /\ saved = IF d.stale THEN <<StaleChunk>> ELSE <<>>
    /\ nSaved = 0
    /\ nSkipped = 0
    /\ usedTileRefs = 0
    /\ CacheIdle
    /\ ProcessIdle
    /\ PyramidIdle
    /\ DiskIdle
    /\ log = <<>>
    /\ PoolIdle
    /\ QueryIdle
    /\ SideIdle

MergeInit == MergeInitIn(MergeDirs)

\* main, lines 754-776: the test of workers, getFolders, loadFolders (a folder without a valid tile
\* gets no index), folderOrder.
LoadLayers ==
    /\ pc = "start"
    /\ LET folders == getFolders(entries)
           loaded == {f \in Range(folders) :
                         /\ Len(layerFiles[f]) > 0
                         /\ Len(loadFolder(f, layerFiles[f], TileSize)) > 0}
           HasIndex(f) == f \in loaded
       IN  IF workers < 1
           THEN /\ pc' = "exit1"
                /\ UNCHANGED <<subdirs, indexes, folderOrder>>
           ELSE /\ subdirs' = folders
                /\ indexes' = [f \in loaded |-> loadFolder(f, layerFiles[f], TileSize)]
                /\ folderOrder' = SelectSeq(folders, HasIndex)
                /\ pc' = IF loaded = {} THEN "exit1" ELSE "loaded"
    /\ UNCHANGED <<extraVars, processVars, diskVars, pyramidVars, entries, gridVars, layerFiles, saveEmpty, chunks, ci, saved,
                   nSaved, nSkipped, usedTileRefs, mergeVars, cacheVars, taskVars>>

\* main, lines 777-798: getChunks, clearOutputDir, new TileCache.
PlanChunks ==
    /\ pc = "loaded"
    /\ chunks' = getChunks(indexes, folderOrder, TileSize, BaseX, BaseZ)
    /\ ci' = 1
    /\ IF chunks' = <<>>
       THEN /\ pc' = "exit0"
            /\ UNCHANGED <<saved, cache, layerFiles>>
       ELSE IF clearOutputDirThrows(dirs.out, dirs.src)
       THEN /\ pc' = "exit1"
            /\ UNCHANGED <<saved, cache, layerFiles>>
       ELSE /\ saved' = clearOutputDir(saved)
            /\ layerFiles' = layersAfterClear(layerFiles, dirs.out, dirs.src)
            /\ cache' = <<>>
            /\ pc' = "chunks"
    /\ UNCHANGED <<extraVars, processVars, diskVars, pyramidVars, foldersVars, gridVars, saveEmpty, indexes, folderOrder,
                   nSaved, nSkipped, usedTileRefs, mergeVars, promises, taskVars>>

\* main, line 825, the serial branch, and mergeSingleChunk, lines 559-568:
\* the black canvas and the area query.
BeginChunk ==
    /\ pc = "chunks"
    /\ workers = 1
    /\ LET chunkX0 == chunks[ci].vx
           chunkZ0 == chunks[ci].vz
           chunkX1 == chunkX0 + TileSize - 1
           chunkZ1 == chunkZ0 + TileSize - 1
       IN  work' = AreaTiles(indexes, folderOrder, chunkX0, chunkZ0, chunkX1, chunkZ1)
    /\ canvas' = [i \in 0..(TileSize * TileSize * 3 - 1) |-> 0]
    /\ wroteAny' = FALSE
    /\ touchedTiles' = 0
    /\ pc' = IF work' = <<>> THEN "merged" ELSE "merging"
    /\ UNCHANGED <<extraVars, processVars, diskVars, pyramidVars, foldersVars, gridVars, runVars, cacheVars, taskVars>>

\* mergeSingleChunk, lines 575-628: one tile of the area query, with the
\* loadRgbTile call it awaits (in a serial run the decode is the only thing in
\* flight). When readRgbTile throws, the catch handler of loadRgbTile deletes
\* the key, the await throws out of mergeSingleChunk, processAndSaveChunk and
\* the loop of main, and the catch of lines 883-886 logs [fatal] and sets exit
\* code 1.
ApplyTile ==
    /\ pc = "merging"
    /\ LET tileRef == Head(work)
           chunkX0 == chunks[ci].vx
           chunkZ0 == chunks[ci].vz
           chunkX1 == chunkX0 + TileSize - 1
           chunkZ1 == chunkZ0 + TileSize - 1
           inter == rectIntersection(chunkX0, chunkZ0, chunkX1, chunkZ1,
                                     tileRef.x0, tileRef.z0, tileRef.x1, tileRef.z1)
           key == <<TileSize, tileRef.filePath>>
           file == layerFiles[tileRef.filePath[1]][tileRef.filePath[2]]
           hit == CacheHas(cache, key)
           pid == IF hit THEN CacheGet(cache, key) ELSE Len(promises) + 1
           throws == ~hit /\ readRgbTileThrows(file, TileSize)
           allPromises ==
               IF hit THEN promises
               ELSE IF throws
                    THEN Append(promises, [key |-> key, state |-> "rejected",
                                           value |-> <<>>])
               ELSE Append(promises, [key |-> key, state |-> "resolved",
                                      value |-> readRgbTile(file, TileSize)])
           srcImg == allPromises[pid].value
           res == CopyTile(canvas, srcImg, inter, tileRef, chunkX0, chunkZ0)
       IN  IF inter = <<>>
           THEN /\ UNCHANGED <<canvas, wroteAny, touchedTiles, cacheVars>>
                /\ work' = Tail(work)
                /\ pc' = IF work' = <<>> THEN "merged" ELSE "merging"
           ELSE IF throws
           THEN /\ cache' = CacheDelete(CacheInsert(cache, key, pid), key)
                /\ promises' = allPromises
                /\ pc' = "fatal"
                /\ UNCHANGED <<canvas, wroteAny, touchedTiles, work>>
           ELSE /\ cache' = IF hit THEN CacheRefresh(cache, key)
                            ELSE CacheInsert(cache, key, pid)
                /\ promises' = allPromises
                /\ canvas' = res.canvas
                /\ wroteAny' = (wroteAny \/ res.wrote)
                /\ touchedTiles' = IF res.wrote THEN touchedTiles + 1 ELSE touchedTiles
                /\ work' = Tail(work)
                /\ pc' = IF work' = <<>> THEN "merged" ELSE "merging"
    /\ UNCHANGED <<extraVars, processVars, diskVars, pyramidVars, foldersVars, gridVars, runVars, taskVars>>

\* processAndSaveChunk, line 698: the chunk is returned unsaved.
notSaved_Always(hasContent, keepEmpty) == TRUE

notSaved(hasContent, keepEmpty) == ~hasContent /\ ~keepEmpty

\* processAndSaveChunk, lines 698-710, and the loop body of main, lines 828-833.
FinishChunk ==
    /\ pc = "merged"
    /\ IF notSaved(wroteAny, saveEmpty)
       THEN /\ nSkipped' = nSkipped + 1
            /\ UNCHANGED <<saved, nSaved, usedTileRefs>>
       ELSE /\ saved' = Append(saved, [gx |-> chunks[ci].gx, gz |-> chunks[ci].gz,
                                       vx |-> chunks[ci].vx, vz |-> chunks[ci].vz,
                                       img |-> canvas])
            /\ nSaved' = nSaved + 1
            /\ usedTileRefs' = usedTileRefs + touchedTiles
            /\ UNCHANGED nSkipped
    /\ ci' = ci + 1
    /\ pc' = IF ci' > Len(chunks) THEN "done" ELSE "chunks"
    /\ UNCHANGED <<extraVars, processVars, diskVars, pyramidVars, foldersVars, gridVars, layerFiles, saveEmpty, indexes, folderOrder,
                   chunks, mergeVars, cacheVars, taskVars>>

MergeNext == LoadLayers \/ PlanChunks \/ BeginChunk \/ ApplyTile \/ FinishChunk

SpecMerge == MergeInit /\ [][MergeNext]_vars

\* ------------------------------------------------ compositing: the claims

\* The pixel at column dx, row dy of an RGB buffer.
PixelOf(buf, dx, dy) ==
    LET i == (dy * TileSize + dx) * 3 IN <<buf[i], buf[i + 1], buf[i + 2]>>

Covers(tileRef, wx, wz) ==
    /\ tileRef.x0 <= wx /\ wx <= tileRef.x1
    /\ tileRef.z0 <= wz /\ wz <= tileRef.z1

\* The pixel a source tile holds at world coordinate (wx, wz).
SourcePixel(tileRef, wx, wz) ==
    PatternPixel(layerFiles[tileRef.filePath[1]][tileRef.filePath[2]].pattern,
                 wx - tileRef.x0, wz - tileRef.z0)

\* The tiles of a layer that hold a non-black pixel at (wx, wz), as indices.
NonBlackTiles(folder, wx, wz) ==
    {i \in DOMAIN indexes[folder] :
        /\ Covers(indexes[folder][i], wx, wz)
        /\ SourcePixel(indexes[folder][i], wx, wz) # Black}

\* The pixel a layer shows at (wx, wz): that of its last tile non-black there.
LayerPixel(folder, wx, wz) ==
    SourcePixel(indexes[folder][SetMax(NonBlackTiles(folder, wx, wz))], wx, wz)

\* The positions in folderOrder of the layers non-black at (wx, wz).
NonBlackLayers(wx, wz) ==
    {i \in DOMAIN folderOrder : NonBlackTiles(folderOrder[i], wx, wz) # {}}

ChunkPixels == (0..(TileSize - 1)) \X (0..(TileSize - 1))

Suffix(folder) == ParseInt(MapFolderDigits(folder))

\* Layer a has priority over layer b: of two map<N> layers the one with the
\* smaller suffix, a layer without a numeric suffix over every map<N> layer,
\* of two layers without one the greater lower-cased name.
Overrides(a, b) ==
    IF IsNumbered(a) /\ IsNumbered(b) THEN Suffix(a) < Suffix(b)
    ELSE IF ~IsNumbered(a) /\ ~IsNumbered(b)
         THEN StrLess(ToLowerCase(b), ToLowerCase(a))
    ELSE ~IsNumbered(a)

\* C1 (as amended): when mergeSingleChunk returns, every pixel of the chunk is
\* the non-black source pixel of the layer that has priority over every other
\* layer non-black at that world coordinate (the one applied last), and black
\* when no layer is non-black there.
C1_LastAppliedLayerWins ==
    pc = "merged" =>
        \A p \in ChunkPixels :
            LET wx == chunks[ci].vx + p[1]
                wz == chunks[ci].vz + p[2]
                hits == {folderOrder[i] : i \in NonBlackLayers(wx, wz)}
            IN  IF hits = {} THEN PixelOf(canvas, p[1], p[2]) = Black
                ELSE \E top \in hits :
                        /\ \A other \in hits \ {top} : Overrides(top, other)
                        /\ PixelOf(canvas, p[1], p[2]) = LayerPixel(top, wx, wz)

\* Among the layers non-black at (wx, wz), the positions of those named map<N>.
NumberedLayers(wx, wz) ==
    {i \in NonBlackLayers(wx, wz) : MapFolderDigits(folderOrder[i]) # <<>>}

\* C1 (as stated): the pixel is that of the layer with the smallest numeric
\* suffix among the layers non-black at that coordinate.
C1_SmallestSuffixWins ==
    pc = "merged" =>
        \A p \in ChunkPixels :
            LET wx == chunks[ci].vx + p[1]
                wz == chunks[ci].vz + p[2]
                numbered == NumberedLayers(wx, wz)
            IN  numbered # {} =>
                    \E i \in numbered :
                        /\ \A j \in numbered : Suffix(folderOrder[i]) <= Suffix(folderOrder[j])
                        /\ PixelOf(canvas, p[1], p[2]) = LayerPixel(folderOrder[i], wx, wz)

\* map0 and map5 are both non-black at a pixel of the merged chunk, with
\* different colours, and the chunk shows map0's.
C1_Witness ==
    /\ pc = "merged"
    /\ \E p \in ChunkPixels :
          LET wx == chunks[ci].vx + p[1]
              wz == chunks[ci].vz + p[2]
              hits == NonBlackLayers(wx, wz)
          IN  /\ {folderOrder[i] : i \in hits} = {<<109, 97, 112, 48>>, <<109, 97, 112, 53>>}
              /\ LayerPixel(<<109, 97, 112, 48>>, wx, wz) # LayerPixel(<<109, 97, 112, 53>>, wx, wz)
              /\ PixelOf(canvas, p[1], p[2]) = LayerPixel(<<109, 97, 112, 48>>, wx, wz)

\* C3: applying a tile leaves every canvas position whose source pixel in that
\* tile is black exactly as it was before the tile was applied.
C3_BlackNeverWrites ==
    [][pc = "merging" =>
          \A p \in ChunkPixels :
              LET tileRef == Head(work)
                  wx == chunks[ci].vx + p[1]
                  wz == chunks[ci].vz + p[2]
              IN  (Covers(tileRef, wx, wz) /\ SourcePixel(tileRef, wx, wz) = Black)
                      => PixelOf(canvas', p[1], p[2]) = PixelOf(canvas, p[1], p[2])]_vars

\* A tile with a black pixel has been applied over a colour an earlier layer
\* wrote there, and the colour is still there.
C3_Witness ==
    /\ pc \in {"merging", "merged"}
    /\ \E p \in ChunkPixels :
          LET wx == chunks[ci].vx + p[1]
              wz == chunks[ci].vz + p[2]
              hits == NonBlackLayers(wx, wz)
          IN  /\ hits # {}
              /\ \E j \in DOMAIN folderOrder :
                    /\ j > SetMax(hits)
                    /\ \E i \in DOMAIN indexes[folderOrder[j]] :
                          /\ Covers(indexes[folderOrder[j]][i], wx, wz)
                          /\ indexes[folderOrder[j]][i] \notin Range(work)
              /\ PixelOf(canvas, p[1], p[2]) # Black

\* The tiles the area query of the current chunk returns.
ChunkTiles ==
    AreaTiles(indexes, folderOrder, chunks[ci].vx, chunks[ci].vz,
              chunks[ci].vx + TileSize - 1, chunks[ci].vz + TileSize - 1)

\* A tile holds a non-black pixel inside the current chunk.
Contributes(tileRef) ==
    \E p \in ChunkPixels :
        /\ Covers(tileRef, chunks[ci].vx + p[1], chunks[ci].vz + p[2])
        /\ SourcePixel(tileRef, chunks[ci].vx + p[1], chunks[ci].vz + p[2]) # Black

\* C4: mergeSingleChunk returns wroteAny = true exactly when a non-black source
\* pixel was copied, exactly when the canvas holds a non-black pixel and exactly
\* when touchedTiles > 0 (touchedTiles counts the tiles that contributed).
C4_WroteAnyExact ==
    pc = "merged" =>
        LET contributing == {i \in DOMAIN ChunkTiles : Contributes(ChunkTiles[i])}
        IN  /\ wroteAny = (contributing # {})
            /\ wroteAny = (\E p \in ChunkPixels : PixelOf(canvas, p[1], p[2]) # Black)
            /\ wroteAny = (touchedTiles > 0)
            /\ touchedTiles = Cardinality(contributing)

\* A chunk overlapped by tiles, all of them black, returned wroteAny = false.
C4_Witness ==
    /\ pc = "merged"
    /\ ChunkTiles # <<>>
    /\ \A i \in DOMAIN ChunkTiles : ~Contributes(ChunkTiles[i])
    /\ ~wroteAny
    /\ \A p \in ChunkPixels : PixelOf(canvas, p[1], p[2]) = Black

\* The scenario of the spec: map0 holds one red tile and map1 one blue tile at
\* the same aligned coordinate, and empty chunks are not persisted.
Scenario ==
    /\ Range(entries) = {<<109, 97, 112, 48>>, <<109, 97, 112, 49>>}
    /\ layerFiles[<<109, 97, 112, 48>>] = <<File(AlignedX, BaseZ, "red")>>
    /\ layerFiles[<<109, 97, 112, 49>>] = <<File(AlignedX, BaseZ, "blue")>>
    /\ ~saveEmpty

\* C5: in the scenario a merge run persists exactly one chunk, at the tile's
\* world origin, and every pixel of it is red.
C5_ScenarioOneRedChunk ==
    (pc = "done" /\ Scenario) =>
        /\ Len(saved) = 1
        /\ saved[1].vx = AlignedX
        /\ saved[1].vz = BaseZ
        /\ \A p \in ChunkPixels : PixelOf(saved[1].img, p[1], p[2]) = Red

C5_Witness ==
    /\ pc = "done"
    /\ Scenario
    /\ nSaved = 1
    /\ nSkipped = Len(chunks) - 1

\* ------------------------------- specification: the shared decoded-tile cache

\* The cache keys `${tileSize}|${tilePath}` of the tiles the tasks ask for: one
\* more than the cache holds.
CacheKeys == 1..(maxSize + 1)
Tasks == 1..NumTasks

CacheInit ==
    /\ pc = "cache"
    /\ cache = <<>>
    /\ promises = <<>>
    /\ waiting = [t \in Tasks |-> 0]
    /\ calls = {}
    /\ lastUse = [k \in CacheKeys |-> 0]
    /\ clock = 0
    /\ lastEvicted = NoEntry
    /\ entries = <<>>
    /\ subdirs = <<>>
    /\ gridArgs = NoGridArgs
    /\ grid = NoGrid
    /\ RunIdle
    /\ ProcessIdle
    /\ PyramidIdle
    /\ DiskIdle
    /\ ExtraIdle

\* The promises created for a key, oldest first.
PidsOf(ps, key) == {i \in DOMAIN ps : ps[i].key = key}

\* A key's first decode has started and has not completed.
FirstDecodePending(ps, key) ==
    /\ PidsOf(ps, key) # {}
    /\ ps[SetMin(PidsOf(ps, key))].state = "pending"

\* loadRgbTile, lines 518-537, called by a running task, which then awaits the
\* promise returned. Keys are numbered in the order of their first use.
LoadRgbTile(t, key) ==
    /\ pc = "cache"
    /\ waiting[t] = 0
    /\ clock < MaxCalls
    /\ key <= Cardinality({k \in CacheKeys : lastUse[k] > 0}) + 1
    /\ LET hit == CacheHas(cache, key)
           pid == IF hit THEN CacheGet(cache, key) ELSE Len(promises) + 1
           set == CacheSet(cache, key, pid)
       IN  /\ IF hit
              THEN /\ cache' = CacheRefresh(cache, key)
                   /\ UNCHANGED <<promises, lastEvicted>>
              ELSE /\ promises' = Append(promises, [key |-> key, state |-> "pending",
                                                    value |-> pid])
                   /\ cache' = CacheInsert(cache, key, pid)
                   /\ lastEvicted' = IF Len(cache') < Len(set) THEN Head(set)
                                     ELSE lastEvicted
           /\ waiting' = [waiting EXCEPT ![t] = pid]
           /\ calls' = calls \cup {[key |-> key, pid |-> pid,
                                    early |-> \/ PidsOf(promises, key) = {}
                                              \/ FirstDecodePending(promises, key)]}
    /\ clock' = clock + 1
    /\ lastUse' = [lastUse EXCEPT ![key] = clock + 1]
    /\ UNCHANGED <<extraVars, processVars, diskVars, pyramidVars, pc, foldersVars, gridVars, runVars, mergeVars>>

\* readRgbTile resolves: the decode of a promise completes.
DecodeDone(pid) ==
    /\ pc = "cache"
    /\ promises[pid].state = "pending"
    /\ promises' = [promises EXCEPT ![pid].state = "resolved"]
    /\ UNCHANGED <<extraVars, processVars, diskVars, pyramidVars, pc, cache, taskVars, foldersVars, gridVars, runVars, mergeVars>>

\* readRgbTile rejects, lines 526-529: the catch handler deletes the key and
\* rethrows.
DecodeFail(pid) ==
    /\ pc = "cache"
    /\ promises[pid].state = "pending"
    /\ promises' = [promises EXCEPT ![pid].state = "rejected"]
    /\ cache' = CacheDelete(cache, promises[pid].key)
    /\ UNCHANGED <<extraVars, processVars, diskVars, pyramidVars, pc, taskVars, foldersVars, gridVars, runVars, mergeVars>>

\* The await of a task returns the buffer, or throws and ends the task.
Resume(t) ==
    /\ pc = "cache"
    /\ waiting[t] > 0
    /\ promises[waiting[t]].state # "pending"
    /\ waiting' = [waiting EXCEPT ![t] =
                      IF promises[waiting[t]].state = "resolved" THEN 0 ELSE -1]
    /\ UNCHANGED <<extraVars, processVars, diskVars, pyramidVars, pc, cacheVars, calls, lastUse, clock, lastEvicted,
                   foldersVars, gridVars, runVars, mergeVars>>

CacheNext ==
    \/ \E t \in Tasks, key \in CacheKeys : LoadRgbTile(t, key)
    \/ \E pid \in DOMAIN promises : DecodeDone(pid)
    \/ \E pid \in DOMAIN promises : DecodeFail(pid)
    \/ \E t \in Tasks : Resume(t)

SpecCache == CacheInit /\ [][CacheNext]_vars

\* C8: every loadRgbTile call for a key made before the key's first decode
\* completed returned the promise of that first decode, so one decode was
\* started for them and they resolve to one buffer.
C8_OneDecodeWhileInFlight ==
    \A c \in calls : c.early => c.pid = SetMin(PidsOf(promises, c.key))

\* C9: the cache never holds more than maxSize entries, in flight and resolved
\* together.
C9_AtMostMaxSize == Len(cache) <= maxSize

\* The cache is full, with an entry in flight and a resolved one, after an
\* eviction.
C9_Witness ==
    /\ Len(cache) = maxSize
    /\ lastEvicted # NoEntry
    /\ \E i \in DOMAIN cache : promises[cache[i].pid].state = "pending"
    /\ \E i \in DOMAIN cache : promises[cache[i].pid].state = "resolved"

\* C10: the entry an insert evicts is the one whose most recent insert or hit
\* is the oldest among all entries of the cache.
C10_EvictsLeastRecentlyUsed ==
    [][Len(promises') > Len(promises) =>
          \A e \in Range(cache) \ Range(cache') :
              \A f \in Range(cache) : lastUse[e.key] <= lastUse[f.key]]_vars

\* An eviction took the entry inserted second although the one inserted first
\* was still in the cache: a hit had refreshed the older entry.
C10_Witness ==
    /\ lastEvicted # NoEntry
    /\ \E i \in DOMAIN cache : cache[i].pid < lastEvicted.pid

\* The entries of a cache other than those of one key, in the Map's order.
OtherEntries(c, key) ==
    LET Other(e) == e.key # key IN SelectSeq(c, Other)

\* C11: when the decode of a key fails the cache holds no entry for the key
\* afterwards and the entries of every other key are as they were; a
\* loadRgbTile for a key without an entry starts a new decode; a caller gets
\* the error exactly when the promise it was given is the failed one, and that
\* promise is a decode of the key it asked for.
C11_FailedDecodeIsForgotten ==
    [][/\ \A pid \in DOMAIN promises :
              (promises[pid].state = "pending" /\ promises'[pid].state = "rejected")
              => /\ ~CacheHas(cache', promises[pid].key)
                 /\ OtherEntries(cache', promises[pid].key)
                        = OtherEntries(cache, promises[pid].key)
       /\ \A e \in Range(cache') : promises'[e.pid].state # "rejected"
       /\ \A c \in calls' \ calls :
              ~CacheHas(cache, c.key)
              => /\ Len(promises') = Len(promises) + 1
                 /\ c.pid = Len(promises')
                 /\ promises'[c.pid].state = "pending"
       /\ \A c \in calls' : promises'[c.pid].key = c.key
       /\ \A t \in Tasks :
              waiting[t] > 0 /\ waiting'[t] # waiting[t]
              => (waiting'[t] = -1 <=> promises[waiting[t]].state = "rejected")
       /\ \A t \in Tasks : waiting'[t] = -1 => waiting[t] # 0]_vars

\* The decode of a key failed and its caller got the error, a caller of
\* another key got its buffer while that key's entry stayed in the cache, and a
\* later loadRgbTile for the failed key started a new decode.
C11_Witness ==
    \E p, q \in DOMAIN promises :
        /\ p < q
        /\ promises[p].key = promises[q].key
        /\ promises[p].state = "rejected"
        /\ CacheHas(cache, promises[q].key)
        /\ \E t \in Tasks : waiting[t] = -1
        /\ \E e \in Range(cache) :
               /\ e.key # promises[p].key
               /\ e.pid < q
               /\ promises[e.pid].state = "resolved"

\* ------------------------------------------ a source tile of the wrong size

\* The positions in chunks of the chunks that hold a non-black pixel of a
\* source tile of the right size.
ChunksWithContent ==
    {i \in DOMAIN chunks :
        \E f \in DOMAIN indexes : \E j \in DOMAIN indexes[f] : \E p \in ChunkPixels :
            /\ ~readRgbTileThrows(layerFiles[f][indexes[f][j].filePath[2]], TileSize)
            /\ Covers(indexes[f][j], chunks[i].vx + p[1], chunks[i].vz + p[2])
            /\ SourcePixel(indexes[f][j], chunks[i].vx + p[1], chunks[i].vz + p[2]) # Black}

\* The source tree holds a tile whose decode has the wrong dimensions.
HasWrongSizeTile ==
    \E f \in DOMAIN layerFiles : \E j \in DOMAIN layerFiles[f] :
        readRgbTileThrows(layerFiles[f][j], TileSize)

\* C12 (as stated): a serial merge run over a source tree with a tile of the
\* wrong size does not end in the fatal handler, and when it has ended every
\* chunk that holds non-black content of a well-sized tile has been persisted.
C12_WrongSizeTileOnlySkipped ==
    /\ pc # "fatal"
    /\ (pc = "done" /\ HasWrongSizeTile) =>
           \A i \in ChunksWithContent :
               \E k \in DOMAIN saved : /\ saved[k].vx = chunks[i].vx
                                       /\ saved[k].vz = chunks[i].vz

\* ------------------------------------------- process-map: names and index

\* TILE_SIZE of process-map.cjs and generate-mip-pyramid.cjs, X_OFFSET of
\* generate-mip-pyramid.cjs.
TILE_SIZE == 1024
X_OFFSET == 512

\* Math.round(n / d) for d > 0: the nearest integer, a half rounded up.
MathRound(n, d) == FloorDiv(2 * n + d, 2 * d)

\* ".webp"
WebpExt == <<46, 119, 101, 98, 112>>

\* process-map line 102: `${col}_${row}_x${x}_z${z}.webp`
outName(col, row, x, z) ==
    NumberToString(col) \o <<95>> \o NumberToString(row) \o <<95, 120>>
        \o NumberToString(x) \o <<95, 122>> \o NumberToString(z) \o WebpExt

\* parseTileName, lines 37-39: the column and row of a tile at (x, z).
tileCol(x) == MathRound(x - 512, TILE_SIZE)
tileRow(z) == MathRound(z, TILE_SIZE)

\* The record process-map pushes to builtTiles, lines 140-147.
builtTile(x, z) ==
    [col |-> tileCol(x), row |-> tileRow(z), x |-> x, z |-> z,
     filename |-> outName(tileCol(x), tileRow(z), x, z),
     path |-> <<46, 47>> \o outName(tileCol(x), tileRow(z), x, z)]

\* builtTiles.sort((a, b) => (a.x === b.x ? a.z - b.z : a.x - b.x))
TileBefore(a, b) == a.x < b.x \/ (a.x = b.x /\ a.z < b.z)

RECURSIVE InsertTile(_, _)
InsertTile(sorted, t) ==
    IF sorted = <<>> THEN <<t>>
    ELSE IF TileBefore(t, Head(sorted)) THEN <<t>> \o sorted
    ELSE <<Head(sorted)>> \o InsertTile(Tail(sorted), t)

\* builtTiles left in the order the conversions completed.
sortTiles_None(tiles) == tiles

RECURSIVE sortTiles(_)
sortTiles(tiles) ==
    IF tiles = <<>> THEN <<>>
    ELSE InsertTile(sortTiles(SubSeq(tiles, 1, Len(tiles) - 1)), tiles[Len(tiles)])

\* The content of tile-index.json, lines 163-172.
tileIndex(tiles) ==
    [exists |-> TRUE,
     tiles |-> sortTiles(tiles),
     minX |-> IF tiles = <<>> THEN 0 ELSE SetMin({tiles[i].x : i \in DOMAIN tiles}),
     maxX |-> IF tiles = <<>> THEN 0 ELSE SetMax({tiles[i].x : i \in DOMAIN tiles}),
     minZ |-> IF tiles = <<>> THEN 0 ELSE SetMin({tiles[i].z : i \in DOMAIN tiles}),
     maxZ |-> IF tiles = <<>> THEN 0 ELSE SetMax({tiles[i].z : i \in DOMAIN tiles})]

\* ------------------------------------------- generate-mip-pyramid: images

\* A tile image, as the colours of its four quadrants <<column, row>>; a
\* quadrant is `half` pixels wide and high.
half == TILE_SIZE \div 2
Quadrants == {0, 1} \X {0, 1}
Uniform(c) == [q \in Quadrants |-> c]

\* sharp(...).resize(half, half, { fit: 'fill' }): an image of one colour keeps
\* it, any other image becomes a quadrant of several colours.
resizeHalf(img) ==
    IF \A q \in Quadrants : img[q] = img[<<0, 0>>] THEN img[<<0, 0>>] ELSE "mixed"

\* sharp(...).composite(composites): each input, a three-channel image without
\* transparency, is drawn over the canvas at (left, top), in array order.
RECURSIVE composite(_, _)
composite(cv, comps) ==
    IF comps = <<>> THEN cv
    ELSE composite([cv EXCEPT ![<<Head(comps).left \div half, Head(comps).top \div half>>]
                                   = Head(comps).input],
                   Tail(comps))

\* toFile resolving while the file is still being written.
writtenFile_Partial(img) == [state |-> "partial", img |-> img]

\* The file when toFile has resolved, line 85.
writtenFile(img) == [state |-> "complete", img |-> img]

NoFile == [state |-> "missing", img |-> Uniform("black")]
fileAt(files, path) == IF path \in DOMAIN files THEN files[path] ELSE NoFile

\* clearDirSafe, lines 58-59: rmSync of the whole directory, then mkdirSync:
\* no file under outDir is left.
clearDirSafe_Keep(files) == files

clearDirSafe(files) == <<>>

\* clearDir(mipRoot): every file under tilesDir/mip is removed; the base tiles
\* stay.
clearDir(files) == [p \in {q \in DOMAIN files : q[1] = 0} |-> files[p]]

\* ----------------------------------------- generate-mip-pyramid: grouping

getKey(x, z) == NumberToString(x) \o <<95>> \o NumberToString(z)

prevWorldSize(lv) == TILE_SIZE * 2 ^ (lv - 1)
worldSize_Flat(lv) == TILE_SIZE * 2

worldSize(lv) == prevWorldSize(lv) * 2

\* Division that rounds toward zero.
TruncDiv(a, b) == IF a >= 0 THEN a \div b ELSE -((-a) \div b)

parentCoord_Trunc(childX, childZ, parentStep) ==
    [x |-> TruncDiv(childX - X_OFFSET, parentStep) * parentStep + X_OFFSET,
     z |-> TruncDiv(childZ, parentStep) * parentStep]

parentCoord(childX, childZ, parentStep) ==
    [x |-> FloorDiv(childX - X_OFFSET, parentStep) * parentStep + X_OFFSET,
     z |-> FloorDiv(childZ, parentStep) * parentStep]

\* A grouping that keeps only the first child of each parent.
RECURSIVE groupTiles_FirstChild(_, _, _)
groupTiles_FirstChild(tiles, step, grouped) ==
    IF tiles = <<>> THEN grouped
    ELSE LET tile == Head(tiles)
             parent == parentCoord(tile.x, tile.z, step)
             key == getKey(parent.x, parent.z)
         IN  groupTiles_FirstChild(Tail(tiles), step,
                 IF \E i \in DOMAIN grouped : grouped[i].key = key
                 THEN grouped
                 ELSE Append(grouped, [key |-> key, x |-> parent.x, z |-> parent.z,
                                       children |-> <<tile>>]))

\* main, lines 149-161: the groups in the insertion order of the Map.
RECURSIVE groupTiles(_, _, _)
groupTiles(tiles, step, grouped) ==
    IF tiles = <<>> THEN grouped
    ELSE LET tile == Head(tiles)
             parent == parentCoord(tile.x, tile.z, step)
             key == getKey(parent.x, parent.z)
             existing == {i \in DOMAIN grouped : grouped[i].key = key}
         IN  groupTiles(Tail(tiles), step,
                 IF existing # {}
                 THEN [i \in DOMAIN grouped |->
                          IF i \in existing
                          THEN [grouped[i] EXCEPT !.children = Append(@, tile)]
                          ELSE grouped[i]]
                 ELSE Append(grouped, [key |-> key, x |-> parent.x, z |-> parent.z,
                                       children |-> <<tile>>]))

\* The placement with the two axes exchanged.
placement_Transposed(child, group, prev) ==
    [left |-> MathRound(child.z - group.z, prev) * half,
     top |-> MathRound(child.x - group.x, prev) * half]

\* buildParentTile, lines 65-68.
placement(child, group, prev) ==
    [left |-> MathRound(child.x - group.x, prev) * half,
     top |-> MathRound(child.z - group.z, prev) * half]

\* The check of line 110 left out.
noBaseTiles_Never(baseTiles) == FALSE

\* main, line 110.
noBaseTiles(baseTiles) == Len(baseTiles) = 0

\* `${group.x}_${group.z}.webp`
mipFilename(x, z) == getKey(x, z) \o WebpExt

\* A tile of a level as the level loop holds it, lines 123-129 and 169-175.
levelTile(lv, x, z, filename) ==
    [x |-> x, z |-> z, filename |-> filename, path |-> <<lv, filename>>,
     sourcePath |-> <<lv, filename>>]

\* The tile as a level record of the manifest lists it, lines 139 and 194.
manifestTile(t) == [x |-> t.x, z |-> t.z, filename |-> t.filename, path |-> t.path]

\* ------------------------------ specification: a run of generate-mip-pyramid

\* Most tiles of a tile-index.json, and the greatest maxLevels argument.
MaxBaseTiles == 5
MaxLevels == 2

\* The world origins the base tiles are drawn from: the four children of the
\* parent at (512, 0), tiles west and north-west of it (negative coordinates),
\* a tile of the next parent to the east, and a tile off the grid that lies
\* inside the tile at (512, 0).
TilePositions ==
    { <<X_OFFSET, 0>>, <<X_OFFSET + TILE_SIZE, 0>>, <<X_OFFSET, TILE_SIZE>>,
      <<X_OFFSET + TILE_SIZE, TILE_SIZE>>, <<X_OFFSET - TILE_SIZE, 0>>,
      <<X_OFFSET - 2 * TILE_SIZE, -TILE_SIZE>>, <<X_OFFSET + 2 * TILE_SIZE, 0>>,
      <<X_OFFSET + 88, 0>> }

TileSets == {T \in SUBSET TilePositions : Cardinality(T) \in 1..MaxBaseTiles}

RECURSIVE SeqOf(_)
SeqOf(S) ==
    IF S = {} THEN <<>>
    ELSE LET m == CHOOSE m \in S : TRUE IN <<m>> \o SeqOf(S \ {m})

\* The records of the tiles at a set of origins, as process-map lists them.
BaseTilesAt(T) ==
    sortTiles([i \in 1..Cardinality(T) |-> builtTile(SeqOf(T)[i][1], SeqOf(T)[i][2])])

\* What the base tiles show: each a colour of its own; all red but the last,
\* which is black; the first red in one quadrant and black elsewhere, the
\* others blue.
Schemes == {"distinct", "lastBlack", "firstSplit"}
Palette == <<"red", "green", "blue", "yellow">>

BaseImage(scheme, i, n) ==
    CASE scheme = "distinct" -> Uniform(Palette[((i - 1) % 4) + 1])
      [] scheme = "lastBlack" -> IF i = n THEN Uniform("black") ELSE Uniform("red")
      [] scheme = "firstSplit" ->
            IF i = 1 THEN [q \in Quadrants |-> IF q = <<0, 0>> THEN "red" ELSE "black"]
            ELSE Uniform("blue")

\* The base tile files of an index; with bad, the last one cannot be decoded.
BaseFiles(ts, scheme, bad) ==
    [p \in {<<0, ts[i].filename>> : i \in DOMAIN ts} |->
        LET i == CHOOSE i \in DOMAIN ts : ts[i].filename = p[2]
        IN  IF bad /\ i = Len(ts)
            THEN [state |-> "corrupt", img |-> Uniform("black")]
            ELSE [state |-> "complete", img |-> BaseImage(scheme, i, Len(ts))]]

\* What an earlier run left under tilesDir/mip.
StaleFiles ==
    <<1, mipFilename(X_OFFSET, 0)>> :> [state |-> "complete", img |-> Uniform("stale")]
StaleManifest == [state |-> "stale", levels |-> <<>>]

PyramidConfigs ==
    {c \in [tiles : TileSets \cup {{}}, scheme : Schemes, exists : BOOLEAN,
            stale : BOOLEAN, bad : BOOLEAN] :
        /\ c.tiles = {} => (c.scheme = "distinct" /\ ~c.bad)
        /\ ~c.exists => c.tiles = {}}

mergeSide == <<foldersVars, gridVars, runVars, mergeVars, cacheVars, taskVars>>

MergeSideIdle ==
    /\ entries = <<>>
    /\ subdirs = <<>>
    /\ gridArgs = NoGridArgs
    /\ grid = NoGrid
    /\ RunIdle
    /\ CacheIdle

PyramidInit ==
    /\ pc = "mipStart"
    /\ \E c \in PyramidConfigs :
          /\ indexFile = IF c.exists THEN tileIndex(BaseTilesAt(c.tiles)) ELSE NoIndexFile
          /\ tileFiles = IF c.stale
                         THEN BaseFiles(BaseTilesAt(c.tiles), c.scheme, c.bad) @@ StaleFiles
                         ELSE BaseFiles(BaseTilesAt(c.tiles), c.scheme, c.bad)
          /\ manifest = IF c.stale THEN StaleManifest ELSE NoManifest
    /\ maxLevels \in 1..MaxLevels
    /\ levels = <<>>
    /\ currentLevelTiles = <<>>
    /\ level = 0
    /\ groups = <<>>
    /\ gi = 0
    /\ ck = 0
    /\ composites = <<>>
    /\ nextTiles = <<>>
    /\ reads = {}
    /\ written = {}
    /\ ProcessIdle
    /\ MergeSideIdle
    /\ ExtraIdle

\* A level record of the manifest, lines 131-140 and 186-195.
levelRecord(lv, size, minX, maxX, minZ, maxZ, tiles) ==
    [level |-> lv, worldSize |-> size, minX |-> minX, maxX |-> maxX,
     minZ |-> minZ, maxZ |-> maxZ, count |-> Len(tiles),
     tiles |-> [i \in DOMAIN tiles |-> manifestTile(tiles[i])]]

\* main, lines 103-140: the index is read; without an index or without base
\* tiles the process exits with status 1; else tilesDir/mip is emptied and
\* level 0 is the list of the base tiles.
ReadIndex ==
    /\ pc = "mipStart"
    /\ IF ~indexFile.exists \/ noBaseTiles(indexFile.tiles)
       THEN /\ pc' = "mipExit1"
            /\ UNCHANGED <<tileFiles, manifest, levels, currentLevelTiles, level>>
       ELSE /\ tileFiles' = clearDir(tileFiles)
            /\ manifest' = NoManifest
            /\ currentLevelTiles' =
                   [i \in DOMAIN indexFile.tiles |->
                       levelTile(0, indexFile.tiles[i].x, indexFile.tiles[i].z,
                                 indexFile.tiles[i].filename)]
            /\ levels' = <<levelRecord(0, TILE_SIZE, indexFile.minX, indexFile.maxX,
                                       indexFile.minZ, indexFile.maxZ,
                                       currentLevelTiles')>>
            /\ level' = 1
            /\ pc' = "level"
    /\ UNCHANGED <<indexFile, maxLevels, groups, nextTiles, buildVars, reads, written,
                   processVars, mergeSide, extraVars>>

\* main, lines 142-164: the loop test and the grouping of a level.
StartLevel ==
    /\ pc = "level"
    /\ IF level > maxLevels
       THEN /\ pc' = "manifest"
            /\ UNCHANGED <<groups, nextTiles, buildVars>>
       ELSE /\ groups' = groupTiles(currentLevelTiles, worldSize(level), <<>>)
            /\ nextTiles' = <<>>
            /\ gi' = 1
            /\ ck' = 1
            /\ composites' = <<>>
            /\ pc' = IF groups' = <<>> THEN "levelEnd" ELSE "build"
    /\ UNCHANGED <<diskVars, maxLevels, levels, currentLevelTiles, level, reads,
                   written, processVars, mergeSide, extraVars>>

\* buildParentTile, lines 64-73: one child of the group. A child placed
\* outside the canvas is passed over; a child file that cannot be read makes
\* sharp reject, buildParentTile and main reject with it, and the handler of
\* lines 224-227 exits with status 1.
ReadChild ==
    /\ pc = "build"
    /\ ck <= Len(groups[gi].children)
    /\ LET child == groups[gi].children[ck]
           at == placement(child, groups[gi], prevWorldSize(level))
           file == fileAt(tileFiles, child.sourcePath)
       IN  IF at.left < 0 \/ at.left > half \/ at.top < 0 \/ at.top > half
           THEN /\ ck' = ck + 1
                /\ UNCHANGED <<pc, composites, reads>>
           ELSE /\ reads' = reads \cup {[level |-> level, path |-> child.sourcePath,
                                         state |-> file.state]}
                /\ IF file.state = "complete"
                   THEN /\ composites' = Append(composites,
                               [input |-> resizeHalf(file.img),
                                left |-> at.left, top |-> at.top])
                        /\ ck' = ck + 1
                        /\ UNCHANGED pc
                   ELSE /\ pc' = "mipExit1"
                        /\ UNCHANGED <<ck, composites>>
    /\ UNCHANGED <<diskVars, maxLevels, levelVars, gi, written, processVars, mergeSide, extraVars>>

\* buildParentTile, lines 75-85: the black canvas, the composites drawn on it,
\* and the file being written.
ComposeParent ==
    /\ pc = "build"
    /\ ck > Len(groups[gi].children)
    /\ LET outputPath == <<level, mipFilename(groups[gi].x, groups[gi].z)>>
           img == composite(Uniform("black"), composites)
       IN  tileFiles' = [p \in DOMAIN tileFiles \cup {outputPath} |->
                            IF p = outputPath THEN [state |-> "partial", img |-> img]
                            ELSE tileFiles[p]]
    /\ pc' = "writing"
    /\ UNCHANGED <<indexFile, manifest, maxLevels, levelVars, buildVars, reads, written,
                   processVars, mergeSide, extraVars>>

\* toFile resolves and the loop body of main goes on, lines 168-176.
FinishWrite ==
    /\ pc = "writing"
    /\ LET filename == mipFilename(groups[gi].x, groups[gi].z)
           outputPath == <<level, filename>>
       IN  /\ tileFiles' = [tileFiles EXCEPT ![outputPath] = writtenFile(@.img)]
           /\ written' = written \cup {outputPath}
           /\ nextTiles' = Append(nextTiles,
                                  levelTile(level, groups[gi].x, groups[gi].z, filename))
    /\ gi' = gi + 1
    /\ ck' = 1
    /\ composites' = <<>>
    /\ pc' = IF gi' > Len(groups) THEN "levelEnd" ELSE "build"
    /\ UNCHANGED <<indexFile, manifest, maxLevels, levels, currentLevelTiles, level,
                   groups, reads, processVars, mergeSide, extraVars>>

\* main, lines 182-200: the level record, and the test that ends the loop.
EndLevel ==
    /\ pc = "levelEnd"
    /\ IF nextTiles = <<>>
       THEN /\ pc' = "manifest"
            /\ UNCHANGED <<levels, currentLevelTiles, level>>
       ELSE /\ levels' = Append(levels,
                   levelRecord(level, worldSize(level),
                       SetMin({nextTiles[i].x : i \in DOMAIN nextTiles}),
                       SetMax({nextTiles[i].x : i \in DOMAIN nextTiles}),
                       SetMin({nextTiles[i].z : i \in DOMAIN nextTiles}),
                       SetMax({nextTiles[i].z : i \in DOMAIN nextTiles}),
                       nextTiles))
            /\ currentLevelTiles' = nextTiles
            /\ IF Len(nextTiles) <= 1
               THEN /\ pc' = "manifest"
                    /\ UNCHANGED level
               ELSE /\ pc' = "level"
                    /\ level' = level + 1
    /\ UNCHANGED <<diskVars, maxLevels, groups, nextTiles, buildVars, reads, written,
                   processVars, mergeSide, extraVars>>

\* main, lines 203-211.
WriteManifest ==
    /\ pc = "manifest"
    /\ manifest' = [state |-> "written", levels |-> levels]
    /\ pc' = "mipDone"
    /\ UNCHANGED <<indexFile, tileFiles, pyramidVars, processVars, mergeSide, extraVars>>

PyramidNext ==
    \/ ReadIndex
    \/ StartLevel
    \/ ReadChild
    \/ ComposeParent
    \/ FinishWrite
    \/ EndLevel
    \/ WriteManifest

SpecPyramid == PyramidInit /\ [][PyramidNext]_vars

\* ----------------------------------------------- the pyramid: the claims

\* The level loop holds the groups of the level being built.
Grouped == pc \in {"build", "writing", "levelEnd"}

\* C13: a parent build of level L+1 reads only files of level L, and each file
\* of a level >= 1 it reads is complete and was written earlier in this run;
\* while level L+1 >= 2 is being built every tile of level L is a complete file
\* written in this run; a level record, once pushed, and the tile list a level
\* is built from do not change.
C13_LevelsInOrder ==
    [][/\ \A r \in reads' \ reads :
              /\ r.path[1] = r.level - 1
              /\ r.path[1] >= 1 => (r.state = "complete" /\ r.path \in written)
       /\ (pc' \in {"build", "writing"} /\ level' >= 2) =>
              \A i \in DOMAIN levels'[level'].tiles :
                  /\ levels'[level'].level = level' - 1
                  /\ fileAt(tileFiles', levels'[level'].tiles[i].path).state = "complete"
                  /\ levels'[level'].tiles[i].path \in written'
       /\ \A i \in DOMAIN levels : i \in DOMAIN levels' /\ levels'[i] = levels[i]
       /\ (Grouped /\ pc' \in {"build", "writing", "levelEnd"}) =>
              currentLevelTiles' = currentLevelTiles]_vars

\* A run has built level 2 from the files of level 1 and written the manifest.
C13_Witness ==
    /\ pc = "mipDone"
    /\ Len(levels) = 3
    /\ \E r \in reads : r.level = 2 /\ r.state = "complete" /\ r.path \in written
    /\ levels[2].count >= 2

\* C14: in the grouping of level L >= 1 every tile of level L-1 is in exactly
\* one group, a group's coordinate is floor((childX-512)/worldSize)*worldSize
\* +512 and floor(childZ/worldSize)*worldSize for each of its children, with
\* parentX <= childX < parentX+worldSize and parentZ <= childZ <
\* parentZ+worldSize; no two groups share a coordinate, and a level record
\* lists one tile per parent coordinate of the level before it.
C14_GroupingPartitions ==
    /\ Grouped =>
          LET size == 1024 * 2 ^ level
          IN  /\ \A i \in DOMAIN currentLevelTiles :
                    Cardinality({<<g, k>> \in (DOMAIN groups) \X (1..Len(currentLevelTiles)) :
                                    /\ k \in DOMAIN groups[g].children
                                    /\ groups[g].children[k] = currentLevelTiles[i]}) = 1
              /\ \A g \in DOMAIN groups : \A k \in DOMAIN groups[g].children :
                    LET c == groups[g].children[k]
                    IN  /\ c \in Range(currentLevelTiles)
                        /\ groups[g].x = FloorDiv(c.x - 512, size) * size + 512
                        /\ groups[g].z = FloorDiv(c.z, size) * size
                        /\ groups[g].x <= c.x /\ c.x < groups[g].x + size
                        /\ groups[g].z <= c.z /\ c.z < groups[g].z + size
              /\ \A g, h \in DOMAIN groups :
                    g # h => <<groups[g].x, groups[g].z>> # <<groups[h].x, groups[h].z>>
    /\ \A i \in 2..Len(levels) :
          LET size == 1024 * 2 ^ (i - 1)
              below == levels[i - 1].tiles
              here == levels[i].tiles
          IN  /\ {<<here[k].x, here[k].z>> : k \in DOMAIN here}
                    = {<<FloorDiv(below[k].x - 512, size) * size + 512,
                         FloorDiv(below[k].z, size) * size>> : k \in DOMAIN below}
              /\ \A k, m \in DOMAIN here :
                    k # m => <<here[k].x, here[k].z>> # <<here[m].x, here[m].z>>

\* Level 1 is grouped into a group of two children and groups of tiles with a
\* negative x and a negative z.
C14_Witness ==
    /\ pc = "levelEnd"
    /\ level = 1
    /\ Len(nextTiles) = Len(groups)
    /\ \E g \in DOMAIN groups : Len(groups[g].children) >= 2
    /\ \E g \in DOMAIN groups : groups[g].children[1].x < 0 /\ groups[g].x < 0
    /\ \E g \in DOMAIN groups : groups[g].children[1].z < 0 /\ groups[g].z < 0

\* The children of the group being built lie at distinct origins on the grid
\* of the level below.
AlignedGroup ==
    LET prev == prevWorldSize(level)
        kids == groups[gi].children
    IN  /\ \A k \in DOMAIN kids :
              (kids[k].x - 512) % prev = 0 /\ kids[k].z % prev = 0
        /\ \A k, m \in DOMAIN kids :
              k # m => <<kids[k].x, kids[k].z>> # <<kids[m].x, kids[m].z>>

\* C15: when all children of a group at distinct grid-aligned origins have
\* been read, none was skipped, child k is placed at left = dx*512 and top =
\* dz*512 with dx = (childX-parentX)/prevWorldSize and dz = (childZ-parentZ)/
\* prevWorldSize in {0,1} (origin top-left, east top-right, south bottom-left,
\* diagonal bottom-right), no two children share a quadrant, and the file
\* written shows each child, downsampled, in its quadrant.
C15_ChildrenFillQuadrants ==
    ((\/ pc = "build" /\ ck > Len(groups[gi].children)
      \/ pc = "writing") /\ AlignedGroup) =>
        LET prev == prevWorldSize(level)
            kids == groups[gi].children
            out == fileAt(tileFiles, <<level, mipFilename(groups[gi].x, groups[gi].z)>>)
        IN  /\ Len(composites) = Len(kids)
            /\ \A k \in DOMAIN kids :
                  LET dx == (kids[k].x - groups[gi].x) \div prev
                      dz == (kids[k].z - groups[gi].z) \div prev
                  IN  /\ dx \in {0, 1} /\ dz \in {0, 1}
                      /\ dx * prev = kids[k].x - groups[gi].x
                      /\ dz * prev = kids[k].z - groups[gi].z
                      /\ composites[k].left = dx * 512
                      /\ composites[k].top = dz * 512
                      /\ pc = "writing" =>
                            out.img[<<dx, dz>>]
                                = resizeHalf(fileAt(tileFiles, kids[k].sourcePath).img)
            /\ \A k, m \in DOMAIN composites :
                  k # m => <<composites[k].left, composites[k].top>>
                               # <<composites[m].left, composites[m].top>>

\* The four children of the parent at (512, 0), each of one colour, are being
\* written as the four quadrants of the parent.
C15_Witness ==
    /\ pc = "writing"
    /\ level = 1
    /\ AlignedGroup
    /\ Len(groups[gi].children) = 4
    /\ LET out == fileAt(tileFiles, <<1, mipFilename(groups[gi].x, groups[gi].z)>>)
       IN  /\ out.img[<<0, 0>>] = "red"
           /\ out.img[<<0, 1>>] = "green"
           /\ out.img[<<1, 0>>] = "blue"
           /\ out.img[<<1, 1>>] = "yellow"

\* C16 (as stated): in a manifest no level follows a level of at most one tile,
\* level 0 included, and the last level has at most one tile or is level
\* maxLevels.
C16_StopsAtSmallLevel ==
    manifest.state = "written" =>
        /\ \A i \in 1..(Len(manifest.levels) - 1) : manifest.levels[i].count > 1
        /\ \/ manifest.levels[Len(manifest.levels)].count <= 1
           \/ manifest.levels[Len(manifest.levels)].level = maxLevels

\* C17 (as stated): in the parent image being written, a quadrant in which a
\* child placed content that is not black is not black.
C17_BlackChildIsTransparent ==
    pc = "writing" =>
        LET out == fileAt(tileFiles, <<level, mipFilename(groups[gi].x, groups[gi].z)>>)
        IN  \A k \in DOMAIN composites :
                composites[k].input # "black"
                => out.img[<<composites[k].left \div half, composites[k].top \div half>>]
                       # "black"

\* The tile index is missing or lists no tile.
NoBaseTiles == ~indexFile.exists \/ Len(indexFile.tiles) = 0

\* C18: without a tile index, or with one that lists no tile, the build goes
\* from its start to the exit with status 1 only: no level is recorded, no file
\* and no manifest is written.
C18_NoIndexIsFatal ==
    NoBaseTiles =>
        /\ pc \in {"mipStart", "mipExit1"}
        /\ levels = <<>>
        /\ written = {}
        /\ manifest.state # "written"
        /\ fileAt(tileFiles, <<1, mipFilename(X_OFFSET, 0)>>).state
               = (IF manifest.state = "stale" THEN "complete" ELSE "missing")

\* The build has exited with status 1 on an index that lists no tile, and the
\* stale manifest of an earlier run is still there.
C18_Witness ==
    /\ pc = "mipExit1"
    /\ indexFile.exists
    /\ Len(indexFile.tiles) = 0
    /\ manifest.state = "stale"

\* C19 (as stated): a child file that cannot be read does not end the build:
\* it goes on to the manifest.
C19_FailedChildOnlyFailsParent ==
    (\E r \in reads : r.state # "complete") =>
        /\ pc # "mipExit1"
        /\ pc = "mipDone" => manifest.state = "written"

\* ------------------------------------- specification: a run of process-map

\* Most png files of the source directory, and the greatest concurrency.
MaxSourceFiles == 3
MaxConcurrency == 2

\* The world origins the source files are named after.
SourcePositions ==
    { <<X_OFFSET, 0>>, <<X_OFFSET + TILE_SIZE, 0>>, <<X_OFFSET - TILE_SIZE, 0>>,
      <<X_OFFSET + 2 * TILE_SIZE, 0>>, <<X_OFFSET + 88, 0>> }

\* Which conversions fail.
Failures == {"none", "last", "all"}

\* The png files named after a set of origins, with what sharp makes of them.
SourceFilesAt(T, failing) ==
    [i \in 1..Cardinality(T) |->
        [x |-> SeqOf(T)[i][1], z |-> SeqOf(T)[i][2],
         ok |-> ~(failing = "all" \/ (failing = "last" /\ i = Cardinality(T))),
         img |-> Uniform(Palette[((i - 1) % 4) + 1])]]

\* A second png named after the origin of the first one (a_x512_z0.png next to
\* x512_z0.png), listed last.
WithDuplicate(files) ==
    Append(files, [x |-> files[1].x, z |-> files[1].z, ok |-> TRUE,
                   img |-> Uniform("stale")])

\* clearDirSafe, lines 47-56: the two refusals.
clearDirSafeThrows_RootOnly(dir, sourceDir) ==
    resolve(dir) = Root

clearDirSafeThrows(dir, sourceDir) ==
    LET resolvedDir == resolve(dir)
        resolvedSource == resolve(sourceDir)
    IN  resolvedDir = Root \/ resolvedDir = resolvedSource

\* The sourceDir and outDir arguments: the defaults, outDir naming the source
\* directory directly and through "..", and outDir naming the root. stale
\* tells whether an earlier run left files in outDir.
ProcessSourceDir == <<"map", "merged_map">>
ProcessDirs ==
    { [out |-> <<"public", "tiles">>, stale |-> FALSE],
      [out |-> <<"public", "tiles">>, stale |-> TRUE],
      [out |-> <<"map", "merged_map">>, stale |-> TRUE],
      [out |-> <<"map", "merged_map", "x", "..">>, stale |-> TRUE],
      [out |-> <<"public", "..">>, stale |-> TRUE] }

\* What an earlier run left in the output directory.
StaleTile == builtTile(X_OFFSET + 3 * TILE_SIZE, 0)
StaleIndex == tileIndex(<<StaleTile>>)
StaleOutput ==
    (<<0, StaleTile.filename>> :> [state |-> "complete", img |-> Uniform("stale")])
        @@ StaleFiles

ProcessInitIn(Dirs) ==
    /\ ppc = "start"
    /\ pc = "notSpawned"
    /\ \E T \in {S \in SUBSET SourcePositions : Cardinality(S) <= MaxSourceFiles},
          failing \in Failures, dup \in BOOLEAN :
            /\ (T = {} => failing = "none")
            /\ dup => (failing = "none" /\ T # {} /\ Cardinality(T) < MaxSourceFiles)
            /\ sourceFiles = IF dup THEN WithDuplicate(SourceFilesAt(T, failing))
                             ELSE SourceFilesAt(T, failing)
    /\ concurrency \in 1..MaxConcurrency
    /\ maxLevels \in 1..MaxLevels
    /\ \E d \in Dirs :
          /\ dirs = [out |-> d.out, src |-> ProcessSourceDir]
          /\ indexFile = IF d.stale THEN StaleIndex ELSE NoIndexFile
          /\ tileFiles = IF d.stale THEN StaleOutput ELSE <<>>
          /\ manifest = IF d.stale THEN StaleManifest ELSE NoManifest
    /\ cursor = 0
    /\ running = <<>>
    /\ builtTiles = <<>>
    /\ converted = 0
    /\ failed = 0
    /\ levels = <<>>
    /\ currentLevelTiles = <<>>
    /\ level = 0
    /\ groups = <<>>
    /\ gi = 0
    /\ ck = 0
    /\ composites = <<>>
    /\ nextTiles = <<>>
    /\ reads = {}
    /\ written = {}
    /\ MergeSideIdle
    /\ log = <<>>
    /\ PoolIdle
    /\ QueryIdle
    /\ SideIdle

ProcessInit == ProcessInitIn(ProcessDirs)

\* clearDirSafe, line 58: rmSync of the output directory, recursive and forced; source images
\* that lie inside it go with it, and none of their conversions can succeed.
sourcesAfterClear(files, dir, sourceDir) ==
    IF isInside(resolve(dir), resolve(sourceDir))
    THEN [i \in DOMAIN files |-> [files[i] EXCEPT !.ok = FALSE]]
    ELSE files

\* main, lines 93-114: the tasks; without a task the process exits with status
\* 1, else the output directory is emptied.
ListSource ==
    /\ ppc = "start"
    /\ IF sourceFiles = <<>> \/ clearDirSafeThrows(dirs.out, dirs.src)
       THEN /\ ppc' = "exit1"
            /\ UNCHANGED <<diskVars, sourceFiles>>
       ELSE /\ ppc' = "pool"
            /\ indexFile' = NoIndexFile
            /\ tileFiles' = clearDirSafe(tileFiles)
            /\ manifest' = NoManifest
            /\ sourceFiles' = sourcesAfterClear(sourceFiles, dirs.out, dirs.src)
    /\ UNCHANGED <<pc, concurrency, cursor, running, builtTiles, converted,
                   failed, pyramidVars, mergeSide, extraVars>>

\* A line of console output of process-map: the progress line of line 157
\* and the summary of line 185.
progressLine_NoFailures(done, total, nConverted, nFailed) ==
    [kind |-> "progress", done |-> done, total |-> total,
     converted |-> nConverted, failed |-> 0]

progressLine(done, total, nConverted, nFailed) ==
    [kind |-> "progress", done |-> done, total |-> total,
     converted |-> nConverted, failed |-> nFailed]
summaryLine(total, nConverted, nFailed) ==
    [kind |-> "summary", done |-> total, total |-> total,
     converted |-> nConverted, failed |-> nFailed]

\* The index the loop of a runPool worker takes, lines 77-79: the task at the
\* cursor, or the end of the loop.
taken_Previous(at, items) == IF at >= Len(items) THEN -1 ELSE IF at = 0 THEN 1 ELSE at

taken(at, items) == IF at >= Len(items) THEN -1 ELSE at + 1

\* runPool, line 75: each worker runs to its first await, in order.
StartPool ==
    /\ ppc = "pool"
    /\ running' = [w \in 1..concurrency |-> taken(w - 1, sourceFiles)]
    /\ cursor' = concurrency
    /\ poolLog' = [claimed |-> [i \in DOMAIN sourceFiles |->
                                   Cardinality({w \in 1..concurrency : running'[w] = i})],
                   done |-> [i \in DOMAIN sourceFiles |-> 0]]
    /\ ppc' = "converting"
    /\ UNCHANGED <<pc, sourceFiles, concurrency, builtTiles, converted, failed,
                   diskVars, pyramidVars, mergeSide, dirs, log, workers, runners,
                   nextIndex, completed, queryVars, sideVars>>

\* The conversion a worker awaits settles, lines 138-158, and the worker takes
\* its next task, lines 77-79.
ConvertDone(w) ==
    /\ ppc = "converting"
    /\ running[w] > 0
    /\ LET task == sourceFiles[running[w]]
           tile == builtTile(task.x, task.z)
           outPath == <<0, tile.filename>>
       IN  IF task.ok
           THEN /\ tileFiles' = [p \in DOMAIN tileFiles \cup {outPath} |->
                                    IF p = outPath
                                    THEN [state |-> "complete", img |-> task.img]
                                    ELSE tileFiles[p]]
                /\ builtTiles' = Append(builtTiles, tile)
                /\ converted' = converted + 1
                /\ written' = written \cup {outPath}
                /\ UNCHANGED failed
           ELSE /\ failed' = failed + 1
                /\ UNCHANGED <<tileFiles, builtTiles, converted, written>>
    /\ LET done == converted' + failed'
       IN  log' = IF done % 200 = 0 \/ done = Len(sourceFiles)
                  THEN Append(log, progressLine(done, Len(sourceFiles), converted', failed'))
                  ELSE log
    /\ running' = [running EXCEPT ![w] = taken(cursor, sourceFiles)]
    /\ cursor' = cursor + 1
    /\ poolLog' = logClaim(logDone(poolLog, running[w]), running'[w])
    /\ UNCHANGED <<pc, ppc, sourceFiles, concurrency, indexFile, manifest,
                   maxLevels, levelVars, buildVars, reads, mergeSide, dirs, workers,
                   runners, nextIndex, completed, queryVars, sideVars>>

\* main, lines 163-178: Promise.all has resolved, builtTiles is sorted, the
\* index is written and generate-mip-pyramid is spawned.
WriteIndex ==
    /\ ppc = "converting"
    /\ \A w \in DOMAIN running : running[w] = -1
    /\ builtTiles' = sortTiles(builtTiles)
    /\ indexFile' = tileIndex(builtTiles)
    /\ ppc' = "mip"
    /\ pc' = "mipStart"
    /\ UNCHANGED <<sourceFiles, concurrency, cursor, running, converted, failed,
                   tileFiles, manifest, pyramidVars, mergeSide, extraVars>>

\* main, lines 179-187: the status of the child process decides.
MipExited ==
    /\ ppc = "mip"
    /\ pc \in {"mipExit1", "mipDone"}
    /\ ppc' = IF pc = "mipDone" THEN "done" ELSE "exit1"
    /\ log' = IF pc = "mipDone"
              THEN Append(log, summaryLine(Len(sourceFiles), converted, failed))
              ELSE log
    /\ UNCHANGED <<pc, sourceFiles, concurrency, cursor, running, builtTiles, converted,
                   failed, diskVars, pyramidVars, mergeSide, dirs, poolVars, queryVars, sideVars>>

ProcessNext ==
    \/ ListSource
    \/ StartPool
    \/ \E w \in 1..MaxConcurrency : w \in DOMAIN running /\ ConvertDone(w)
    \/ WriteIndex
    \/ MipExited
    \/ ReadIndex
    \/ StartLevel
    \/ ReadChild
    \/ ComposeParent
    \/ FinishWrite
    \/ EndLevel
    \/ WriteManifest

SpecProcess == ProcessInit /\ [][ProcessNext]_vars

\* C20 (as stated): when process-map has emptied the output directory and
\* then ended with status 1, the directory holds no tile-index.json and no
\* manifest.json.
C20_FatalLeavesNoIndex ==
    (ppc = "exit1" /\ pc = "mipExit1") =>
        /\ ~indexFile.exists
        /\ manifest.state # "written"

\* ------------------------------------------- specification: TileRTreeIndex

\* Most tiles added to the index that is queried.
MaxIndexTiles == 2

\* The corners of the query rectangle have x in -MaxQueryX..MaxQueryX and
\* z in 0..TileSize-1.
MaxQueryX == 2

\* Origins of the tiles added: apart, adjacent and overlapping ones.
IndexOrigins == {-TileSize, -1, 0, 1} \X {0, 1}

RECURSIVE SeqsUpTo(_, _)
SeqsUpTo(S, n) ==
    IF n = 0 THEN {<<>>}
    ELSE LET shorter == SeqsUpTo(S, n - 1)
         IN  shorter \cup {Append(q, e) : q \in {t \in shorter : Len(t) = n - 1}, e \in S}

\* addTile, once per origin of the list.
addTiles(origins) ==
    [i \in 1..Len(origins) |-> TileRef(<<"map0", i>>, origins[i][1], origins[i][2], TileSize)]

IndexInit ==
    /\ pc = "query"
    /\ \E origins \in SeqsUpTo(IndexOrigins, MaxIndexTiles),
          qx0 \in -MaxQueryX..MaxQueryX, qx1 \in -MaxQueryX..MaxQueryX,
          qz0 \in 0..(TileSize - 1), qz1 \in 0..(TileSize - 1) :
            query = [tiles |-> addTiles(origins), x0 |-> qx0, z0 |-> qz0,
                     x1 |-> qx1, z1 |-> qz1]
    /\ found = NoAnswer
    /\ SideIdle
    /\ dirs = NoDirs
    /\ log = <<>>
    /\ PoolIdle
    /\ ProcessIdle
    /\ PyramidIdle
    /\ DiskIdle
    /\ MergeSideIdle

\* The rectangle is looked up as given and with its corners swapped, and its
\* first corner is looked up as a point and as a degenerate rectangle.
FindTiles ==
    /\ pc = "query"
    /\ pc' = "answered"
    /\ found' = [asked |-> TRUE,
                 area |-> findByArea(query.tiles, query.x0, query.z0, query.x1, query.z1),
                 swapped |-> findByArea(query.tiles, query.x1, query.z1, query.x0, query.z0),
                 point |-> findByCoordinate(query.tiles, query.x0, query.z0),
                 pointArea |-> findByArea(query.tiles, query.x0, query.z0, query.x0, query.z0)]
    /\ UNCHANGED <<query, dirs, log, poolVars, processVars, diskVars, pyramidVars, mergeSide,
                   sideVars>>

IndexNext == FindTiles

SpecIndex == IndexInit /\ [][IndexNext]_vars

\* The tile box and the rectangle spanned by the two corners share a point.
Intersects(tile, q) ==
    \E px \in tile.x0..tile.x1, pz \in tile.z0..tile.z1 :
        /\ Min(q.x0, q.x1) <= px /\ px <= Max(q.x0, q.x1)
        /\ Min(q.z0, q.z1) <= pz /\ pz <= Max(q.z0, q.z1)

TimesIn(list, e) == Cardinality({k \in DOMAIN list : list[k] = e})

\* C30: findByArea returns every tile whose inclusive box shares a point with the
\* rectangle exactly once and no other tile, it returns the same list when the
\* two corners are swapped, and findByCoordinate(x, z) is a path exactly when
\* findByArea(x, z, x, z) is not empty.
C30_FindByAreaIsIntersection ==
    found.asked =>
        /\ \A i \in DOMAIN query.tiles :
              TimesIn(found.area, query.tiles[i]) =
                  IF Intersects(query.tiles[i], query) THEN 1 ELSE 0
        /\ \A k \in DOMAIN found.area : \E i \in DOMAIN query.tiles : found.area[k] = query.tiles[i]
        /\ found.swapped = found.area
        /\ (found.point # NullPath) <=> (found.pointArea # <<>>)

\* Two tiles hit by a rectangle given from its far corner to its near corner,
\* the first corner outside every tile.
C30_Witness ==
    /\ found.asked
    /\ Len(found.area) = 2
    /\ query.x0 > query.x1
    /\ found.point = NullPath

\* ------------------------- specification: a run of either top-level script

\* One run of merge-map (serial, one layer folder), one run of process-map
\* with the generate-mip-pyramid it spawns, or one run of generate-mip-pyramid
\* alone on a directory an earlier run has left files in.
ScriptsInit ==
    \/ MergeInit /\ Len(entries) = 1
    \/ ProcessInit
    \/ PyramidInit /\ manifest = StaleManifest
ScriptsNext == MergeNext \/ ProcessNext
SpecScripts == ScriptsInit /\ [][ScriptsNext]_vars

\* The output directory of the run is one the clear function refuses.
MergeRefuses ==
    /\ ppc = "idle"
    /\ resolve(dirs.out) \in {Root, resolve(dirs.src)}
ProcessRefuses ==
    /\ ppc # "idle"
    /\ resolve(dirs.out) \in {Root, resolve(dirs.src)}

\* C21: when the resolved output directory is the filesystem root or the
\* resolved source directory, no step of the run deletes, creates or writes
\* anything (the chunk files, the tile files, tile-index.json and manifest.json
\* stay as they were) and the run can only end with exit status 1; merge-map
\* ends with status 0 only when it has no chunk and so never calls
\* clearOutputDir.
C21_RefusesRootAndSource ==
    [][/\ MergeRefuses =>
            /\ saved' = saved
            /\ nSaved' = 0
            /\ pc' \in {"loaded", "exit1", "exit0"}
            /\ pc' = "exit0" => chunks' = <<>>
       /\ ProcessRefuses =>
            /\ <<indexFile, tileFiles, manifest>>' = <<indexFile, tileFiles, manifest>>
            /\ written' = {}
            /\ ppc' = "exit1"]_vars

\* process-map has ended with status 1 on an output directory that resolves to
\* its source directory, the files of the directory still there.
C21_Witness ==
    /\ ProcessRefuses
    /\ resolve(dirs.out) = resolve(dirs.src)
    /\ dirs.out # dirs.src
    /\ sourceFiles # <<>>
    /\ ppc = "exit1"
    /\ tileFiles = StaleOutput

\* The run has passed the call that empties its output directory.
MergeCleared == ppc = "idle" /\ pc \in {"chunks", "merging", "merged", "done", "fatal"}
ProcessCleared ==
    \/ ppc \in {"pool", "converting", "mip", "done"}
    \/ ppc = "exit1" /\ pc # "notSpawned"
PyramidCleared == levels # <<>>

\* The file is one this run wrote, or the one it is writing.
WrittenThisRun(path) ==
    \/ path \in written
    \/ pc = "writing" /\ tileFiles[path].state = "partial"

PoolFinished ==
    \/ ppc \in {"mip", "done"}
    \/ ppc = "exit1" /\ pc # "notSpawned"

\* The tasks whose conversion succeeds and whose record is r.
SuccessesOf(r) == {i \in DOMAIN sourceFiles :
                      sourceFiles[i].ok /\ builtTile(sourceFiles[i].x, sourceFiles[i].z) = r}

\* tile-index.json holds one record per successful task and no other record.
IndexListsSuccesses ==
    /\ indexFile.exists
    /\ Len(indexFile.tiles) = Cardinality({i \in DOMAIN sourceFiles : sourceFiles[i].ok})
    /\ \A k \in DOMAIN indexFile.tiles :
          Cardinality({j \in DOMAIN indexFile.tiles : indexFile.tiles[j] = indexFile.tiles[k]})
              = Cardinality(SuccessesOf(indexFile.tiles[k]))

RECURSIVE LevelsAbove(_, _, _, _)
LevelsAbove(tiles, lv, most, acc) ==
    IF lv > most THEN acc
    ELSE LET parents == groupTiles(tiles, worldSize(lv), <<>>)
             next == [i \in DOMAIN parents |->
                         levelTile(lv, parents[i].x, parents[i].z,
                                   mipFilename(parents[i].x, parents[i].z))]
             record == levelRecord(lv, worldSize(lv),
                           SetMin({next[i].x : i \in DOMAIN next}),
                           SetMax({next[i].x : i \in DOMAIN next}),
                           SetMin({next[i].z : i \in DOMAIN next}),
                           SetMax({next[i].z : i \in DOMAIN next}), next)
         IN  IF next = <<>> THEN acc
             ELSE IF Len(next) <= 1 THEN Append(acc, record)
             ELSE LevelsAbove(next, lv + 1, most, Append(acc, record))

\* The levels of the manifest as a function of the index and maxLevels.
LevelsOf(index, most) ==
    LET base == [i \in DOMAIN index.tiles |->
                    levelTile(0, index.tiles[i].x, index.tiles[i].z,
                              index.tiles[i].filename)]
    IN  LevelsAbove(base, 1, most,
                    <<levelRecord(0, TILE_SIZE, index.minX, index.maxX,
                                  index.minZ, index.maxZ, base)>>)

\* The x and z of the successful tasks.
SuccessXs == {sourceFiles[i].x : i \in {j \in DOMAIN sourceFiles : sourceFiles[j].ok}}
SuccessZs == {sourceFiles[i].z : i \in {j \in DOMAIN sourceFiles : sourceFiles[j].ok}}

\* C24: whatever the order in which the conversions complete and whatever the
\* output directory held before, tile-index.json holds one record per
\* successful source file, in ascending x and, for equal x, ascending z, with
\* the extreme coordinates of those files (a record is determined by its x and
\* z, so this fixes the content), and the levels of manifest.json are the
\* levels computed from that index and maxLevels alone.
C24_ContentIsFunctionOfInputs ==
    /\ PoolFinished =>
          /\ IndexListsSuccesses
          /\ \A k \in 1..(Len(indexFile.tiles) - 1) :
                \/ indexFile.tiles[k].x < indexFile.tiles[k + 1].x
                \/ /\ indexFile.tiles[k].x = indexFile.tiles[k + 1].x
                   /\ indexFile.tiles[k].z <= indexFile.tiles[k + 1].z
          /\ \A k \in DOMAIN indexFile.tiles :
                indexFile.tiles[k] = builtTile(indexFile.tiles[k].x, indexFile.tiles[k].z)
          /\ SuccessXs # {} =>
                /\ indexFile.minX = SetMin(SuccessXs) /\ indexFile.maxX = SetMax(SuccessXs)
                /\ indexFile.minZ = SetMin(SuccessZs) /\ indexFile.maxZ = SetMax(SuccessZs)
          /\ SuccessXs = {} =>
                /\ indexFile.minX = 0 /\ indexFile.maxX = 0
                /\ indexFile.minZ = 0 /\ indexFile.maxZ = 0
    /\ (ppc # "idle" /\ manifest.state = "written") =>
          manifest.levels = LevelsOf(indexFile, maxLevels)
    /\ (ppc = "done") => manifest.state = "written"

\* Two workers have converted three source files, and the index and a
\* manifest with two generated levels are written.
C24_Witness ==
    /\ ppc = "done"
    /\ concurrency = 2
    /\ Len(indexFile.tiles) = 3
    /\ manifest.state = "written"
    /\ Len(manifest.levels) = 3

\* The fixed grid of the claim: x - 512 and z are multiples of 1024.
OnFixedGrid(x, z) == (x - X_OFFSET) % TILE_SIZE = 0 /\ z % TILE_SIZE = 0

\* C25 (as stated): every record of tile-index.json and every tile of every
\* level of the pyramid has (x - 512) mod 1024 = 0 and z mod 1024 = 0, for
\* every accepted source file name.
C25_EveryTileOnFixedGrid ==
    /\ PoolFinished =>
          \A k \in DOMAIN indexFile.tiles :
              OnFixedGrid(indexFile.tiles[k].x, indexFile.tiles[k].z)
    /\ \A l \in DOMAIN levels : \A k \in DOMAIN levels[l].tiles :
          OnFixedGrid(levels[l].tiles[k].x, levels[l].tiles[k].z)

\* ------------------------------------ specification: the layer registry

\* main up to the test of folderOrder, lines 762-774.
RegistryInit ==
    /\ pc = "start"
    /\ entries \in {s \in DistinctSeqs(MergeFolderNames, MaxLayers) : Len(s) >= 1}
    /\ layerFiles \in [Range(entries) -> RegistryContents]
    /\ saveEmpty = FALSE
    /\ subdirs = <<>>
    /\ gridArgs = NoGridArgs
    /\ grid = NoGrid
    /\ indexes = <<>>
    /\ folderOrder = <<>>
    /\ chunks = <<>>
    /\ ci = 0
    /\ canvas = <<>>
    /\ wroteAny = FALSE
    /\ touchedTiles = 0
    /\ work = <<>>
    /\ saved = <<>>
    /\ nSaved = 0
    /\ nSkipped = 0
    /\ usedTileRefs = 0
    /\ CacheIdle
    /\ ProcessIdle
    /\ PyramidIdle
    /\ DiskIdle
    /\ ExtraIdle

RegistryNext == LoadLayers

SpecRegistry == RegistryInit /\ [][RegistryNext]_vars

\* ------------------------------------------------ layer registry: the claim

\* The positions in a folder of the files whose names yield coordinates.
ParsableFiles(f) == {j \in DOMAIN layerFiles[f] : getImgXZ(layerFiles[f][j].name).ok}

\* C26: after loadFolders a folder has an index exactly when one of its image
\* files has a name with coordinates; the index holds one tile for each such
\* file, those listed after a file without coordinates included, at the
\* coordinates of its name; folderOrder is the priority-ordered folder list
\* with the folders without an index left out; and the run stops with status
\* 1 at this point exactly when no folder has an index.
C26_IndexIffParsableFile ==
    (ppc = "idle" /\ pc \notin {"start", "query", "answered", "mipStart"} /\ entries # <<>>) =>
        /\ subdirs = getFolders(entries)
        /\ \A f \in Range(subdirs) :
              /\ f \in DOMAIN indexes <=> ParsableFiles(f) # {}
              /\ f \in DOMAIN indexes =>
                    /\ Len(indexes[f]) = Cardinality(ParsableFiles(f))
                    /\ \A j \in ParsableFiles(f) :
                          \E k \in DOMAIN indexes[f] :
                              /\ indexes[f][k].filePath = <<f, j>>
                              /\ indexes[f][k].x0 = getImgXZ(layerFiles[f][j].name).x
                              /\ indexes[f][k].z0 = getImgXZ(layerFiles[f][j].name).z
        /\ Range(folderOrder) = Range(subdirs) \cap DOMAIN indexes
        /\ \A a, b \in DOMAIN folderOrder :
              a < b => \E c, d \in DOMAIN subdirs :
                          /\ c < d
                          /\ subdirs[c] = folderOrder[a]
                          /\ subdirs[d] = folderOrder[b]
        /\ (DOMAIN indexes = {}) <=> (pc = "exit1" /\ chunks = <<>> /\ ci = 0)

\* Two folders: one whose only image has no coordinates in its name, left out
\* of folderOrder, and one whose second image is indexed after its first one
\* was skipped.
C26_Witness ==
    /\ pc = "loaded"
    /\ Len(subdirs) = 2
    /\ Len(folderOrder) = 1
    /\ \E f \in Range(subdirs) :
          /\ f \notin DOMAIN indexes
          /\ layerFiles[f] # <<>>
    /\ \E f \in DOMAIN indexes :
          /\ Len(layerFiles[f]) = 2
          /\ Len(indexes[f]) = 1
          /\ indexes[f][1].filePath = <<f, 2>>

\* ------------------- specification: a merge run with any number of workers

\* Most runners (--workers) of a pooled merge run.
MaxWorkers == 2

\* map0, and map0 with map1.
PoolEntries == { <<(<<109, 97, 112, 48>>)>>, << <<109, 97, 112, 48>>, <<109, 97, 112, 49>> >> }

\* The contents a layer folder of a pooled run is drawn from.
PoolContents ==
    { <<File(AlignedX, BaseZ, "red")>>,
      <<File(AlignedX, BaseZ, "black")>>,
      <<WrongSizeFile(AlignedX, BaseZ, "red")>>,
      <<File(ShiftedX, ShiftedZ, "blueStripe")>> }

\* The state a merge-map process starts in.
MergeRunInit ==
    /\ pc = "start"
    /\ entries \in PoolEntries
    /\ layerFiles \in [Range(entries) -> PoolContents]
    /\ dirs = [out |-> DefaultDirs.out, src |-> MergeBasePath]
    /\ subdirs = <<>>
    /\ gridArgs = NoGridArgs
    /\ grid = NoGrid
    /\ indexes = <<>>
    /\ folderOrder = <<>>
    /\ chunks = <<>>
    /\ ci = 0
    /\ canvas = <<>>
    /\ wroteAny = FALSE
    /\ touchedTiles = 0
    /\ work = <<>>
    /\ saved = <<>>
    /\ nSaved = 0
    /\ nSkipped = 0
    /\ usedTileRefs = 0
    /\ runners = <<>>
    /\ nextIndex = 0
    /\ completed = 0
    /\ poolLog = NoPoolLog
    /\ log = <<>>
    /\ QueryIdle
    /\ CacheIdle
    /\ ProcessIdle
    /\ PyramidIdle
    /\ DiskIdle

PoolInit ==
    /\ MergeRunInit
    /\ saveEmpty \in BOOLEAN
    /\ workers \in 0..MaxWorkers
    /\ SideIdle

\* mergeSingleChunk, lines 575-628, as a function of the state it is given:
\* one tile of the area query, with the loadRgbTile call it awaits. st is
\* [failed, canvas, wroteAny, touchedTiles, cache, promises]; failed is the
\* rejection of loadRgbTile thrown out of mergeSingleChunk.
mergeTile(st, tileRef, chunk) ==
    LET chunkX0 == chunk.vx
        chunkZ0 == chunk.vz
        chunkX1 == chunkX0 + TileSize - 1
        chunkZ1 == chunkZ0 + TileSize - 1
        inter == rectIntersection(chunkX0, chunkZ0, chunkX1, chunkZ1,
                                  tileRef.x0, tileRef.z0, tileRef.x1, tileRef.z1)
        key == <<TileSize, tileRef.filePath>>
        file == layerFiles[tileRef.filePath[1]][tileRef.filePath[2]]
        hit == CacheHas(st.cache, key)
        pid == IF hit THEN CacheGet(st.cache, key) ELSE Len(st.promises) + 1
        throws == ~hit /\ readRgbTileThrows(file, TileSize)
        allPromises ==
            IF hit THEN st.promises
            ELSE IF throws
                 THEN Append(st.promises, [key |-> key, state |-> "rejected",
                                           value |-> <<>>])
            ELSE Append(st.promises, [key |-> key, state |-> "resolved",
                                      value |-> readRgbTile(file, TileSize)])
        res == CopyTile(st.canvas, allPromises[pid].value, inter, tileRef, chunkX0, chunkZ0)
    IN  IF st.failed \/ inter = <<>> THEN st
        ELSE IF throws
        THEN [st EXCEPT !.failed = TRUE,
                        !.cache = CacheDelete(CacheInsert(st.cache, key, pid), key),
                        !.promises = allPromises]
        ELSE [failed |-> FALSE,
              canvas |-> res.canvas,
              wroteAny |-> (st.wroteAny \/ res.wrote),
              touchedTiles |-> IF res.wrote THEN st.touchedTiles + 1 ELSE st.touchedTiles,
              cache |-> IF hit THEN CacheRefresh(st.cache, key)
                        ELSE CacheInsert(st.cache, key, pid),
              promises |-> allPromises]

RECURSIVE mergeTiles(_, _, _)
mergeTiles(st, tiles, chunk) ==
    IF tiles = <<>> THEN st
    ELSE mergeTiles(mergeTile(st, Head(tiles), chunk), Tail(tiles), chunk)

\* mergeSingleChunk, lines 558-632: the black canvas, the area query and the
\* tiles applied in order.
mergeSingleChunk(chunk, cch, proms) ==
    mergeTiles([failed |-> FALSE,
                canvas |-> [i \in 0..(TileSize * TileSize * 3 - 1) |-> 0],
                wroteAny |-> FALSE, touchedTiles |-> 0,
                cache |-> cch, promises |-> proms],
               AreaTiles(indexes, folderOrder, chunk.vx, chunk.vz,
                         chunk.vx + TileSize - 1, chunk.vz + TileSize - 1),
               chunk)

\* The loop head of a runner, lines 844-849: the record of a runner that has
\* read nextIndex as idx.
runnerAt(idx, total) ==
    [state |-> IF idx >= total THEN "ended" ELSE "merge", idx |-> idx,
     canvas |-> <<>>, wroteAny |-> FALSE, touchedTiles |-> 0]

\* The 1-based position in chunks of the chunk a runner has taken, 0 for none.
itemOf(runner) == IF runner.state = "ended" THEN 0 ELSE runner.idx + 1

\* The output directory with one more chunk file, listed in chunk order.
withChunkFile(files, chunk, img) ==
    LET file == [gx |-> chunk.gx, gz |-> chunk.gz, vx |-> chunk.vx, vz |-> chunk.vz,
                 img |-> img]
        Position(f) == CHOOSE i \in DOMAIN chunks : chunks[i].gx = f.gx /\ chunks[i].gz = f.gz
        Earlier(f) == Position(f) < Position(file)
        Later(f) == Position(f) > Position(file)
    IN  SelectSeq(files, Earlier) \o <<file>> \o SelectSeq(files, Later)

\* main, lines 840-865: every runner runs to its first await, in order.
StartRunners ==
    /\ pc = "chunks"
    /\ workers > 1
    /\ LET total == Len(chunks)
           runnerCount == Min(workers, total)
       IN  /\ runners' = [r \in 1..runnerCount |-> runnerAt(r - 1, total)]
           /\ nextIndex' = runnerCount
           /\ poolLog' = [claimed |-> [i \in DOMAIN chunks |->
                                          IF i <= runnerCount THEN 1 ELSE 0],
                          done |-> [i \in DOMAIN chunks |-> 0]]
    /\ completed' = 0
    /\ pc' = "pool"
    /\ UNCHANGED <<workers, dirs, log, queryVars, sideVars, processVars, diskVars, pyramidVars,
                   foldersVars, gridVars, runVars, mergeVars, cacheVars, taskVars>>

\* The mergeSingleChunk a runner awaits settles, lines 690-700 and 851-858.
\* When it rejects, the runner rejects; the first rejection rejects
\* Promise.all and main, and the handler of lines 883-886 sets exit code 1.
\* When the chunk is not to be saved the runner counts it as skipped and
\* takes its next index; else toFile is awaited.
RunnerMerge(r) ==
    /\ pc \in {"pool", "fatal"}
    /\ runners[r].state = "merge"
    /\ LET chunk == chunks[runners[r].idx + 1]
           res == mergeSingleChunk(chunk, cache, promises)
       IN  /\ cache' = res.cache
           /\ promises' = res.promises
           /\ IF res.failed
              THEN /\ runners' = [runners EXCEPT ![r].state = "failed"]
                   /\ poolLog' = logDone(poolLog, runners[r].idx + 1)
                   /\ pc' = "fatal"
                   /\ UNCHANGED <<nSkipped, completed, nextIndex>>
              ELSE IF notSaved(res.wroteAny, saveEmpty)
              THEN /\ nSkipped' = nSkipped + 1
                   /\ completed' = completed + 1
                   /\ runners' = [runners EXCEPT ![r] = runnerAt(nextIndex, Len(chunks))]
                   /\ nextIndex' = nextIndex + 1
                   /\ poolLog' = logClaim(logDone(poolLog, runners[r].idx + 1),
                                          itemOf(runners'[r]))
                   /\ UNCHANGED pc
              ELSE /\ runners' = [runners EXCEPT ![r] =
                                     [state |-> "write", idx |-> runners[r].idx,
                                      canvas |-> res.canvas, wroteAny |-> res.wroteAny,
                                      touchedTiles |-> res.touchedTiles]]
                   /\ UNCHANGED <<pc, nSkipped, completed, nextIndex, poolLog>>
    /\ UNCHANGED <<workers, dirs, log, queryVars, sideVars, processVars, diskVars, pyramidVars,
                   foldersVars, gridVars, layerFiles, saveEmpty, indexes, folderOrder,
                   chunks, ci, saved, nSaved, usedTileRefs, mergeVars, taskVars>>

\* The toFile a runner awaits resolves, lines 702-710 and 851-858: the chunk
\* file is in the output directory, the runner counts it as saved and takes
\* its next index.
RunnerSave(r) ==
    /\ pc \in {"pool", "fatal"}
    /\ runners[r].state = "write"
    /\ saved' = withChunkFile(saved, chunks[runners[r].idx + 1], runners[r].canvas)
    /\ nSaved' = nSaved + 1
    /\ usedTileRefs' = usedTileRefs + runners[r].touchedTiles
    /\ completed' = completed + 1
    /\ runners' = [runners EXCEPT ![r] = runnerAt(nextIndex, Len(chunks))]
    /\ nextIndex' = nextIndex + 1
    /\ poolLog' = logClaim(logDone(poolLog, runners[r].idx + 1), itemOf(runners'[r]))
    /\ UNCHANGED <<pc, workers, dirs, log, queryVars, sideVars, processVars, diskVars, pyramidVars,
                   foldersVars, gridVars, layerFiles, saveEmpty, indexes, folderOrder,
                   chunks, ci, nSkipped, mergeVars, cacheVars, taskVars>>

\* main, lines 867-877: Promise.all resolves once every runner has left its
\* loop, and main returns 0.
PoolResolved ==
    /\ pc = "pool"
    /\ \A r \in DOMAIN runners : runners[r].state = "ended"
    /\ pc' = "done"
    /\ UNCHANGED <<extraVars, processVars, diskVars, pyramidVars, foldersVars, gridVars,
                   runVars, mergeVars, cacheVars, taskVars>>

PoolNext ==
    \/ LoadLayers
    \/ PlanChunks
    \/ BeginChunk
    \/ ApplyTile
    \/ FinishChunk
    \/ StartRunners
    \/ \E r \in 1..MaxWorkers : r \in DOMAIN runners /\ RunnerMerge(r)
    \/ \E r \in 1..MaxWorkers : r \in DOMAIN runners /\ RunnerSave(r)
    \/ PoolResolved

SpecPool == PoolInit /\ [][PoolNext]_vars

\* ------------------------------------------------- merge-map: the counts

\* The chunk at position i of the chunk list has a file in the output directory.
HasFile(i) == \E k \in DOMAIN saved : saved[k].gx = chunks[i].gx /\ saved[k].gz = chunks[i].gz

PoolsInit == PoolInit \/ ProcessInit

PoolsNext == PoolNext \/ ProcessNext

SpecPools == PoolsInit /\ [][PoolsNext]_vars

\* The pool of merge-map runners, and runPool of process-map, has been started.
MergePoolStarted == workers > 1 /\ pc \in {"pool", "fatal", "done"}
ConvertPoolStarted == ppc = "converting" \/ PoolFinished

\* The work items that have been taken and whose processing has not ended.
InProgress == {i \in DOMAIN poolLog.claimed : poolLog.claimed[i] > poolLog.done[i]}

\* The work items the workers hold.
HeldItems ==
    IF MergePoolStarted
    THEN {itemOf(runners[r]) : r \in {q \in DOMAIN runners : runners[q].state # "failed"}} \ {0}
    ELSE {running[w] : w \in DOMAIN running} \ {-1}

\* C28: once a pool is started, of merge-map runners or runPool of
\* process-map, no work item is ever taken by two workers, none ends that was
\* not taken, the items in progress are the ones the workers hold and are at
\* most N, the configured number of workers, and when the pool has resolved
\* every item has been taken once and processed once.
C28_EachItemOnce ==
    (MergePoolStarted \/ ConvertPoolStarted) =>
        LET N == IF MergePoolStarted THEN workers ELSE concurrency
            items == IF MergePoolStarted THEN DOMAIN chunks ELSE DOMAIN sourceFiles
        IN  /\ DOMAIN poolLog.claimed = items
            /\ DOMAIN poolLog.done = items
            /\ \A i \in items :
                  /\ poolLog.claimed[i] <= 1
                  /\ poolLog.done[i] <= poolLog.claimed[i]
            /\ InProgress = HeldItems
            /\ Cardinality(InProgress) <= N
            /\ ((MergePoolStarted /\ pc = "done") \/ (~MergePoolStarted /\ PoolFinished)) =>
                  \A i \in items : poolLog.claimed[i] = 1 /\ poolLog.done[i] = 1

\* runPool of two workers has three tasks, two in progress and one ended.
C28_Witness ==
    /\ ppc = "converting"
    /\ concurrency = 2
    /\ Len(sourceFiles) = 3
    /\ Cardinality(InProgress) = 2
    /\ \E i \in DOMAIN sourceFiles : poolLog.done[i] = 1

\* ------------------------------------- merge-map: a failure in the pool

\* C29: once a chunk has failed in a pooled run, no runner takes another
\* chunk and no chunk file is added to the output directory.
C29_FailureStopsRunners ==
    [][(workers > 1 /\ pc = "fatal") =>
          (nextIndex' = nextIndex /\ saved' = saved /\ poolLog'.claimed = poolLog.claimed)]_vars

\* ---------------------------------------------------- chunk file names

\* A chunk file name without the grid indices and without z.
buildChunkFilename_XOnly(chunk, pre) ==
    pre \o <<95, 120>> \o NumberToString(chunk.vx) \o <<46, 112, 110, 103>>

\* buildChunkFilename, lines 669-678, for a chunk of createGrid (which has gx
\* and gz): `${prefix}_${gx}_${gz}_x${vx}_z${vz}.png`.
buildChunkFilename(chunk, pre) ==
    pre \o <<95>> \o NumberToString(chunk.gx) \o <<95>> \o NumberToString(chunk.gz)
        \o <<95, 120>> \o NumberToString(chunk.vx)
        \o <<95, 122>> \o NumberToString(chunk.vz) \o <<46, 112, 110, 103>>

\* A line terminator, which the . of a regular expression does not match.
IsLineTerminator(c) == c \in {10, 13, 8232, 8233}

\* FILE_RE = /^.*?x(-?\d+)_z(-?\d+)\.png$/i with the x at position i of s.
FileMatchAt(s, i) ==
    IF i > Len(s) \/ s[i] \notin {120, 88} THEN NoCoords
    ELSE IF \E j \in 1..(i - 1) : IsLineTerminator(s[j]) THEN NoCoords
    ELSE LET low == ToLowerCase(s)
             mx == MatchInt(s, i + 1)
         IN  IF ~mx.ok \/ mx.next + 1 > Len(s) THEN NoCoords
             ELSE IF low[mx.next] # 95 \/ low[mx.next + 1] # 122 THEN NoCoords
             ELSE LET mz == MatchInt(s, mx.next + 2)
                  IN  IF mz.ok /\ SubSeq(low, mz.next, Len(s)) = <<46, 112, 110, 103>>
                      THEN [ok |-> TRUE, x |-> mx.value, z |-> mz.value]
                      ELSE NoCoords

\* parseTileName, lines 30-40: the first start the lazy .*? reaches; ok FALSE
\* for null.
parseTileName(filename) ==
    LET starts == {i \in 1..Len(filename) : FileMatchAt(filename, i).ok}
    IN  IF starts = {} THEN NoCoords ELSE FileMatchAt(filename, SetMin(starts))

\* ------------------------------------------- specification: pipeline-map

\* The exit status of a merge-map process that ended at pc, lines 879-886, and
\* of a process-map process that ended at ppc.
mergeStatus(at) == IF at \in {"exit0", "done"} THEN 0 ELSE 1
processStatus(at) == IF at = "done" THEN 0 ELSE 1

\* runStep, line 48: the step throws.
stepFails_Never(status) == FALSE

stepFails(status) == status # 0

\* The merge-map process has ended: main has returned or rejected and no
\* runner is left awaiting.
MergeEnded ==
    \/ pc \in {"exit0", "exit1", "done"}
    \/ pc = "fatal" /\ \A r \in DOMAIN runners : runners[r].state \in {"failed", "ended"}

\* What sharp decodes from a chunk file, as the four quadrants the pyramid
\* model samples: the colour of the pixel at each quadrant's corner.
chunkImage(cv) ==
    [q \in Quadrants |->
        LET at == ((q[2] * (TileSize \div 2)) * TileSize + q[1] * (TileSize \div 2)) * 3
            px == <<cv[at], cv[at + 1], cv[at + 2]>>
        IN  CASE px = Black -> "black"
              [] px = Red -> "red"
              [] px = Blue -> "blue"
              [] OTHER -> "mixed"]

\* The "Pipeline completed successfully." line of line 81.
CompletedLine == [kind |-> "completed", done |-> 0, total |-> 0, converted |-> 0, failed |-> 0]

\* main, lines 54-70: the arguments are read and merge-map is spawned with
\* --base-path, --output-dir and --workers (an integer >= 1, parseArgInt).
PipelineInit ==
    /\ MergeRunInit
    /\ saveEmpty = FALSE
    /\ workers \in 1..MaxWorkers
    /\ pipeline = [pos |-> "merge", mergeEnd |-> "", processEnd |-> ""]
    /\ loader = NoLoader
    /\ touch = NoTouch
    /\ prefix = DefaultPrefix

\* runStep, lines 47-50, for the merge step, and main, lines 72-79: spawnSync
\* returns when merge-map has ended; on a non-zero status the step throws and
\* the handler of lines 86-88 exits with status 1, else process-map is
\* spawned on the merged directory.
MergeExited ==
    /\ pipeline.pos = "merge"
    /\ MergeEnded
    /\ IF stepFails(mergeStatus(pc))
       THEN /\ pipeline' = [pipeline EXCEPT !.pos = "exit1", !.mergeEnd = pc]
            /\ UNCHANGED <<pc, ppc, sourceFiles, concurrency, maxLevels, dirs, diskVars>>
       ELSE /\ pipeline' = [pipeline EXCEPT !.pos = "process", !.mergeEnd = pc]
            /\ ppc' = "start"
            /\ pc' = "notSpawned"
            /\ \E failing \in {"none", "last"} :
                  LET parsed == [i \in DOMAIN saved |->
                                    parseTileName(buildChunkFilename(saved[i], prefix))]
                      listed == SelectSeq([i \in DOMAIN saved |-> i],
                                          LAMBDA i : parsed[i].ok)
                  IN  sourceFiles' = [k \in DOMAIN listed |->
                          [x |-> parsed[listed[k]].x, z |-> parsed[listed[k]].z,
                           ok |-> ~(failing = "last" /\ k = Len(listed)),
                           img |-> chunkImage(saved[listed[k]].img)]]
            /\ concurrency' \in 1..MaxConcurrency
            /\ maxLevels' \in 1..MaxLevels
            /\ dirs' = [out |-> <<"public", "tiles">>, src |-> dirs.out]
            /\ \E stale \in BOOLEAN :
                  /\ indexFile' = IF stale THEN StaleIndex ELSE NoIndexFile
                  /\ tileFiles' = IF stale THEN StaleOutput ELSE <<>>
                  /\ manifest' = IF stale THEN StaleManifest ELSE NoManifest
    /\ UNCHANGED <<cursor, running, builtTiles, converted, failed, levelVars, buildVars,
                   reads, written, log, poolVars, queryVars, loader, touch, prefix, foldersVars,
                   gridVars, runVars, mergeVars, cacheVars, taskVars>>

\* runStep, lines 47-50, for the process step, and main, line 81.
ProcessExited ==
    /\ pipeline.pos = "process"
    /\ ppc \in {"done", "exit1"}
    /\ IF stepFails(processStatus(ppc))
       THEN /\ pipeline' = [pipeline EXCEPT !.pos = "exit1", !.processEnd = ppc]
            /\ UNCHANGED log
       ELSE /\ pipeline' = [pipeline EXCEPT !.pos = "done", !.processEnd = ppc]
            /\ log' = Append(log, CompletedLine)
    /\ UNCHANGED <<pc, processVars, diskVars, pyramidVars, dirs, poolVars, queryVars,
                   loader, touch, prefix, mergeSide>>

PipelineNext ==
    \/ PoolNext
    \/ MergeExited
    \/ ProcessNext
    \/ ProcessExited

SpecPipeline == PipelineInit /\ [][PipelineNext]_vars

\* The pyramid builder has been spawned.
MipSpawned == ppc \in {"mip", "done"} \/ (ppc = "exit1" /\ pc # "notSpawned")

\* The line "Pipeline completed successfully." has been printed.
ReportedSuccess == \E i \in DOMAIN log : log[i] = CompletedLine

\* C31: in a pipeline run, process-map is running or has run only if
\* merge-map ended with status 0; the pyramid builder is spawned only when
\* tile-index.json of this run is on disk; success is reported only when
\* merge-map ended with status 0, process-map ended with status 0 and the
\* pyramid builder ended with status 0, and then the pipeline has ended with
\* status 0; and a pipeline that ended after a failing merge has not started
\* process-map, one that ended after a failing conversion or pyramid build
\* has ended with status 1 without reporting success.
C31_StepsInOrder ==
    (pipeline.pos # "off") =>
        /\ pipeline.pos = "merge" => (ppc = "idle" /\ ~ReportedSuccess)
        /\ ppc # "idle" => (pipeline.pos # "merge" /\ mergeStatus(pipeline.mergeEnd) = 0)
        /\ MipSpawned =>
              /\ indexFile.exists
              /\ Len(indexFile.tiles) = converted
              /\ converted + failed = Len(sourceFiles)
        /\ ReportedSuccess <=> pipeline.pos = "done"
        /\ pipeline.pos = "done" =>
              /\ mergeStatus(pipeline.mergeEnd) = 0
              /\ processStatus(pipeline.processEnd) = 0
              /\ pc = "mipDone"
              /\ manifest # NoManifest
        /\ (pipeline.pos = "exit1" /\ mergeStatus(pipeline.mergeEnd) # 0) => ppc = "idle"
        /\ (pipeline.pos \in {"process", "exit1"} /\ ppc = "exit1") => ~ReportedSuccess
        /\ (pipeline.pos = "exit1" /\ ppc # "idle") => processStatus(pipeline.processEnd) # 0

\* A pipeline over two runners that converted two chunks or more and reported
\* success.
C31_Witness ==
    /\ pipeline.pos = "done"
    /\ workers = 2
    /\ converted >= 2
    /\ ReportedSuccess

\* ------------------------------------- specification: chunk file names

\* Factors of the coordinates of a grid: 1, and 512 for names of several
\* digits.
NameScales == {1, 512}
NameCoords == {-2, -1, 0, 1}

\* --prefix values: the default, the empty string, and prefixes that hold a
\* coordinate pair, a file extension or upper-case letters of their own.
Prefixes == { DefaultPrefix, <<>>, <<120, 55, 95, 122, 45, 56>>,
              <<88, 49, 95, 90, 50, 46, 112, 110, 103>> }

NamesInit ==
    /\ pc = "args"
    /\ \E scale \in NameScales, x0, x1 \in NameCoords, z0, z1 \in {-1, 0},
          chunkSize \in {1, 2}, baseX \in {-1, 0} :
            /\ x0 <= x1
            /\ z0 <= z1
            /\ gridArgs = <<x0 * scale, z0 * scale, x1 * scale, z1 * scale,
                            chunkSize * scale, baseX * scale, 0>>
    /\ prefix \in Prefixes
    /\ grid = NoGrid
    /\ entries = <<>>
    /\ subdirs = <<>>
    /\ RunIdle
    /\ CacheIdle
    /\ ProcessIdle
    /\ PyramidIdle
    /\ DiskIdle
    /\ dirs = NoDirs
    /\ log = <<>>
    /\ PoolIdle
    /\ QueryIdle
    /\ pipeline = NoPipeline
    /\ loader = NoLoader
    /\ touch = NoTouch

\* processAndSaveChunk, lines 702-710, for every chunk of the grid: the
\* output directory holds a file of the chunk's name.
NameChunks ==
    /\ pc = "gridded"
    /\ chunks' = grid.chunks
    /\ saved' = [i \in DOMAIN grid.chunks |->
                    [gx |-> grid.chunks[i].gx, gz |-> grid.chunks[i].gz,
                     vx |-> grid.chunks[i].vx, vz |-> grid.chunks[i].vz,
                     name |-> buildChunkFilename(grid.chunks[i], prefix)]]
    /\ pc' = "named"
    /\ UNCHANGED <<extraVars, processVars, diskVars, pyramidVars, gridVars, foldersVars,
                   layerFiles, saveEmpty, indexes, folderOrder, ci, nSaved, nSkipped,
                   usedTileRefs, mergeVars, cacheVars, taskVars>>

\* process-map main, lines 98-106: a task for every file whose name parses,
\* with its output name.
ParseNames ==
    /\ pc = "named"
    /\ LET parsed == [i \in DOMAIN saved |->
                         [filename |-> saved[i].name,
                          x |-> parseTileName(saved[i].name).x,
                          z |-> parseTileName(saved[i].name).z,
                          ok |-> parseTileName(saved[i].name).ok]]
           tasks == SelectSeq(parsed, LAMBDA t : t.ok)
       IN  /\ sourceFiles' = tasks
           /\ builtTiles' = [i \in DOMAIN tasks |-> builtTile(tasks[i].x, tasks[i].z)]
    /\ pc' = "parsed"
    /\ UNCHANGED <<extraVars, ppc, concurrency, cursor, running, converted, failed,
                   diskVars, pyramidVars, mergeSide>>

NamesNext ==
    \/ CreateGrid
    \/ NameChunks
    \/ ParseNames

SpecNames == NamesInit /\ [][NamesNext]_vars

RECURSIVE GroupSteps(_)
GroupSteps(gs) == IF gs = <<>> THEN 0 ELSE Len(Head(gs).children) + 2 + GroupSteps(Tail(gs))

StepsLeft ==
    LET perLevel == 3 * Len(indexFile.tiles) + 3
    IN  CASE pc = "mipStart" -> (maxLevels + 1) * perLevel + 3
          [] pc = "level" -> (maxLevels + 1 - level) * perLevel + 2
          [] pc = "build" -> (maxLevels - level) * perLevel + 3
                                + GroupSteps(SubSeq(groups, gi, Len(groups))) - (ck - 1)
          [] pc = "writing" -> (maxLevels - level) * perLevel + 3
                                + GroupSteps(SubSeq(groups, gi + 1, Len(groups))) + 1
          [] pc = "levelEnd" -> (maxLevels - level) * perLevel + 3
          [] pc = "manifest" -> 1
          [] OTHER -> 0

\* The guard of the one step a run takes from where it is.
CanStep ==
    CASE pc \in {"mipStart", "level", "levelEnd", "manifest"} -> TRUE
      [] pc = "build" -> gi \in DOMAIN groups /\ ck >= 1
      [] pc = "writing" -> gi \in DOMAIN groups
      [] OTHER -> FALSE

\* The manifest this run wrote lists levels 0..k, level 0 being the index.
ManifestInOrder ==
    (manifest.state = "written") =>
        LET L == manifest.levels
        IN  /\ Len(L) >= 1
            /\ Len(L) - 1 <= maxLevels
            /\ \A i \in DOMAIN L :
                  /\ L[i].level = i - 1
                  /\ L[i].worldSize = 1024 * 2 ^ (i - 1)
                  /\ L[i].count = Len(L[i].tiles)
            /\ Len(L[1].tiles) = Len(indexFile.tiles)
            /\ \A j \in DOMAIN indexFile.tiles :
                  /\ L[1].tiles[j].x = indexFile.tiles[j].x
                  /\ L[1].tiles[j].z = indexFile.tiles[j].z
                  /\ L[1].tiles[j].filename = indexFile.tiles[j].filename
            /\ \A path \in written : path[1] >= 1

\* C32: every manifest a run of generate-mip-pyramid writes lists levels 0..k
\* in order, k <= maxLevels, level L with worldSize 1024 * 2^L and count the
\* length of its tile list, level 0 the tiles of tile-index.json in their
\* order, and the run writes no file of level 0; and the run ends: every step
\* lowers a bound on the steps left that is never negative, and a run that
\* has not ended can take a step.
C32_ManifestLevels ==
    /\ [](ManifestInOrder /\ StepsLeft >= 0)
    /\ [](pc \notin {"mipDone", "mipExit1"} => CanStep)
    /\ [][StepsLeft' < StepsLeft]_vars

\* A manifest of three levels, as many as maxLevels allows, over four base
\* tiles.
C32_Witness ==
    /\ pc = "mipDone"
    /\ manifest.state = "written"
    /\ Len(manifest.levels) = 3
    /\ maxLevels = 2
    /\ Len(indexFile.tiles) = 4

\* ------------------------------------------ process-map: one record each

\* C34: tile-index.json holds no two records of one world coordinate and no
\* two records of one filename.
C34_OneRecordPerCoordinate ==
    indexFile.exists =>
        \A i, j \in DOMAIN indexFile.tiles :
            i # j =>
                /\ <<indexFile.tiles[i].x, indexFile.tiles[i].z>>
                       # <<indexFile.tiles[j].x, indexFile.tiles[j].z>>
                /\ indexFile.tiles[i].filename # indexFile.tiles[j].filename

\* ------------------------------------------------ specification: clearing next to the sources

\* Output directories that hold input data: a layer folder of the base path (merge-map), the
\* parent of the source directory (process-map).
NestedMergeDirs == {[out |-> <<"map", "map0">>, stale |-> TRUE]}
NestedProcessDirs == {[out |-> <<"map">>, stale |-> TRUE]}

ClearInit ==
    \/ ScriptsInit
    \/ MergeInitIn(NestedMergeDirs) /\ Len(entries) = 1
    \/ ProcessInitIn(NestedProcessDirs)
SpecClear == ClearInit /\ [][ScriptsNext]_vars

\* C35: whenever clearOutputDir (merge-map) or clearDirSafe (process-map) goes on to delete, every
\* source image that existed before the clear exists after it: the step that clears leaves the
\* layer folders' images and the convertible source files as they were.
C35_ClearKeepsSources ==
    [][/\ (pc = "loaded" /\ pc' = "chunks") => layerFiles' = layerFiles
       /\ (ppc = "start" /\ ppc' = "pool") => sourceFiles' = sourceFiles]_vars

\* ------------------------------------------------ TileCache: a failing decode

\* C36: a failing decode removes only the cache entry it created: in the step in which a decode
\* rejects, every cache entry that holds another promise (a newer in-flight decode of the same key
\* included) is still in the cache afterwards.
C36_FailureKeepsNewerEntry ==
    [][\A pid \in DOMAIN promises :
          (promises[pid].state = "pending" /\ promises'[pid].state = "rejected")
          => \A i \in DOMAIN cache :
                cache[i].pid # pid => \E j \in DOMAIN cache' : cache'[j] = cache[i]]_vars

\* ------------------------------------------------ generate-mip-pyramid: the tile counts

\* The base tiles lie at distinct origins of the grid of TILE_SIZE that starts at X_OFFSET.
AlignedBase ==
    /\ \A i \in DOMAIN indexFile.tiles :
          /\ (indexFile.tiles[i].x - X_OFFSET) % TILE_SIZE = 0
          /\ indexFile.tiles[i].z % TILE_SIZE = 0
    /\ \A i, j \in DOMAIN indexFile.tiles :
          (indexFile.tiles[i].x = indexFile.tiles[j].x
             /\ indexFile.tiles[i].z = indexFile.tiles[j].z) => i = j

RECURSIVE ChildrenIn(_)
ChildrenIn(gs) == IF gs = <<>> THEN 0 ELSE Len(Head(gs).children) + ChildrenIn(Tail(gs))

\* The counts of a list of level records never grow, nor shrink by more than a factor of 4 over
\* aligned base tiles.
CountsShrink(L) ==
    \A i \in 2..Len(L) :
       /\ 1 <= L[i].count
       /\ L[i].count <= L[i - 1].count
       /\ AlignedBase => 4 * L[i].count >= L[i - 1].count

\* C37: for every level L >= 1 of the manifest 1 <= count_L <= count_(L-1); the group sizes of a
\* level sum to the count of the level below, whose tiles are the ones being grouped; over
\* distinct grid-aligned base tiles every group has at most 4 children and
\* 4 * count_L >= count_(L-1).
C37_CountsNeverGrow ==
    /\ pc \in {"level", "build", "writing", "levelEnd", "manifest", "mipDone"} => CountsShrink(levels)
    /\ manifest.state = "written" => CountsShrink(manifest.levels)
    /\ pc \in {"build", "writing", "levelEnd"} =>
          /\ ChildrenIn(groups) = Len(currentLevelTiles)
          /\ Len(currentLevelTiles) = levels[level].count
          /\ AlignedBase => \A g \in DOMAIN groups : Len(groups[g].children) <= 4
    /\ pc = "levelEnd" => Len(nextTiles) = Len(groups)

\* Four aligned base tiles of one parent: a manifest whose level 1 holds a single tile, the
\* fourth part of level 0.
C37_Witness ==
    /\ pc = "mipDone"
    /\ manifest.state = "written"
    /\ AlignedBase
    /\ Len(manifest.levels) >= 2
    /\ manifest.levels[1].count = 4
    /\ manifest.levels[2].count = 1

\* ------------------------------------------------ specification: the viewer's tile loader

\* Most missing tiles of one loadMissingTiles call, and most calls in one behaviour.
MaxMissing == 12
MaxJobs == 2

\* The numbers of missing tiles a call may find: none, or a full batch.
MissingCounts == {0, MaxMissing}

\* camera.zoom in hundredths: 0.03, 1 and 4.
ZoomLevels == {3, 100, 400}
\* selectMipLevel, lines 288-320: selectedLevel.worldSize, or TILE_SIZE without a level; a level
\* of 8 tiles or more is the best one only far out (it is forced at a zoom of 0.035 or less).
LevelSizes(zoom) == IF zoom <= 3 THEN {TILE_SIZE, TILE_SIZE * 8} ELSE {TILE_SIZE}

\* Everything but the viewer's state.
scriptVars == <<pc, mergeSide, processVars, diskVars, pyramidVars, dirs, log, poolVars, queryVars>>

\* loadMissingTiles, lines 390-399.
loadConcurrency(zoom, levelSize) ==
    IF zoom >= 400 THEN 1
    ELSE IF levelSize >= TILE_SIZE * 8 THEN 10
    ELSE IF zoom <= 20 THEN 16
    ELSE IF zoom <= 50 THEN 10
    ELSE 6

\* loadMissingTiles, line 413.
refreshBatch(zoom) == IF zoom >= 400 THEN 36 ELSE 12

\* A job that never finds itself superseded.
superseded_Never(jobId, current) == FALSE

\* loadMissingTiles, lines 408, 414 and 421: jobId !== loadJobId.
superseded(jobId, current) == jobId # current

\* A job whose workers have all returned: nothing of its counters is read again.
EndedJob == [n |-> 0, cursor |-> 0, loadedCount |-> 0, awaiting |-> 0, state |-> "ended"]

\* requestRender, lines 427-435: a frame is pending afterwards.
requestRender(pending) == TRUE

LoaderInit ==
    /\ pc = "viewer"
    /\ loader = NoLoader
    /\ pipeline = NoPipeline
    /\ touch = NoTouch
    /\ prefix = DefaultPrefix
    /\ dirs = NoDirs
    /\ log = <<>>
    /\ PoolIdle
    /\ QueryIdle
    /\ ProcessIdle
    /\ PyramidIdle
    /\ DiskIdle
    /\ MergeSideIdle

\* A call of loadMissingTiles, lines 373-405, up to the first await of each worker: the job takes
\* the next id; without a missing tile it preloads and returns; else each of the workers takes a
\* tile and starts its load while tiles are left. The call comes from the component's watcher of
\* the camera (MapCanvas.vue, lines 29-39), which asks for a render first when the zoom changed,
\* or from one of its other callers, the zoom being as it was.
StartLoad(z, n, levelSize) ==
    /\ pc = "viewer"
    /\ loader.loadJobId < MaxJobs
    /\ LET jobId == loader.loadJobId + 1
           started == Min(loadConcurrency(z, levelSize), n)
           seen == [loader EXCEPT !.zoom = z,
                                  !.pendingRender = IF z # loader.zoom THEN requestRender(@)
                                                    ELSE @,
                                  !.loadJobId = jobId]
       IN  loader' =
             IF n = 0
             THEN [seen EXCEPT
                     !.jobs = Append(@, EndedJob),
                     !.did = {[job |-> jobId, kind |-> "preload"]}]
             ELSE [seen EXCEPT
                     !.jobs = Append(@, [n |-> n, cursor |-> started, loadedCount |-> 0,
                                         awaiting |-> started, state |-> "running"]),
                     !.did = {[job |-> jobId, kind |-> "load"]}]
    /\ UNCHANGED <<scriptVars, pipeline, touch, prefix>>

\* loadTileImage resolves for one worker of a job, lines 410-417 and the next round of the loop,
\* lines 405-408: the count, the render of a full batch, the next tile or the worker's end.
LoadDone(j) ==
    /\ pc = "viewer"
    /\ j \in DOMAIN loader.jobs
    /\ loader.jobs[j].awaiting > 0
    /\ LET job == loader.jobs[j]
           old == superseded(j, loader.loadJobId)
           count == job.loadedCount + 1
           renders == count % refreshBatch(loader.zoom) = 0 /\ ~old
           more == job.cursor < job.n
           loads == more /\ ~old
           left == IF loads THEN job.awaiting ELSE job.awaiting - 1
       IN  loader' = [loader EXCEPT
              !.jobs[j] = IF left = 0 THEN [EndedJob EXCEPT !.state = "joining"]
                          ELSE [job EXCEPT !.loadedCount = count,
                                           !.cursor = IF more THEN @ + 1 ELSE @,
                                           !.awaiting = left],
              !.pendingRender = IF renders THEN requestRender(@) ELSE @,
              !.did = (IF renders THEN {[job |-> j, kind |-> "render"]} ELSE {})
                      \cup (IF loads THEN {[job |-> j, kind |-> "load"]} ELSE {})
                      \cup (IF count % refreshBatch(loader.zoom) = 0 /\ old
                            THEN {[job |-> j, kind |-> "noRender"]} ELSE {})]
    /\ UNCHANGED <<scriptVars, pipeline, touch, prefix>>

\* The continuation of await Promise.all(workers), lines 420-424.
JobJoined(j) ==
    /\ pc = "viewer"
    /\ j \in DOMAIN loader.jobs
    /\ loader.jobs[j].state = "joining"
    /\ loader' =
          IF superseded(j, loader.loadJobId)
          THEN [loader EXCEPT !.jobs[j] = EndedJob,
                              !.did = {[job |-> j, kind |-> "noRender"]}]
          ELSE [loader EXCEPT !.jobs[j] = EndedJob,
                              !.pendingRender = requestRender(@),
                              !.did = {[job |-> j, kind |-> "finalRender"],
                                       [job |-> j, kind |-> "preload"]}]
    /\ UNCHANGED <<scriptVars, pipeline, touch, prefix>>

\* The animation frame of requestRender, lines 431-434.
Frame ==
    /\ pc = "viewer"
    /\ loader.pendingRender
    /\ loader' = [loader EXCEPT !.pendingRender = FALSE, !.did = {}]
    /\ UNCHANGED <<scriptVars, pipeline, touch, prefix>>

LoaderNext ==
    \/ \E z \in ZoomLevels, n \in MissingCounts :
          \E size \in LevelSizes(z) : StartLoad(z, n, size)
    \/ \E j \in 1..MaxJobs : LoadDone(j)
    \/ \E j \in 1..MaxJobs : JobJoined(j)
    \/ Frame

SpecLoader == LoaderInit /\ [][LoaderNext]_vars

\* C38: once a newer loadMissingTiles call has started, an older job starts no tile load and calls
\* neither requestRender nor preloadSurroundingTiles: whatever a step starts or requests is done
\* by the most recent job, the final render after Promise.all included; and a superseded job has
\* no more loads in flight than it had workers.
C38_OnlyNewestJobActs ==
    pc = "viewer" =>
       /\ \A e \in loader.did : e.kind # "noRender" => e.job = loader.loadJobId
       /\ \A j \in DOMAIN loader.jobs :
             /\ loader.jobs[j].awaiting <= 16
             /\ loader.jobs[j].loadedCount + loader.jobs[j].awaiting <= loader.jobs[j].n

\* The last load of a superseded job has just completed, a full batch of them: the job asked
\* for no render and started no load, while the newer job is still loading.
C38_Witness ==
    /\ pc = "viewer"
    /\ loader.loadJobId = 2
    /\ loader.did = {[job |-> 1, kind |-> "noRender"]}
    /\ loader.jobs[1].state = "joining"
    /\ loader.jobs[2].state = "running"

\* ------------------------------------------------ specification: the viewer's touch handlers

\* Most touches on the screen at once, and most touch events in one behaviour.
MaxTouches == 3
MaxTouchEvents == 4

\* Where a touch can be, relative to the canvas: points whose distances are whole numbers
\* (6, 8 and 10) and whose centres have whole coordinates.
TouchPoints == {<<0, 0>>, <<8, 0>>, <<0, 6>>}

\* canvasSize of the store, as resizeCanvas set it.
CanvasSize == [width |-> 16, height |-> 12]

\* tileIndex of the store: not loaded, or the bounds of an index of one tile at the origin.
TouchIndexes == {<<>>, <<[minX |-> 0, maxX |-> 0, minZ |-> 0, maxZ |-> 0]>>}

RECURSIVE Gcd(_, _)
Gcd(a, b) == IF b = 0 THEN a ELSE Gcd(b, a % b)
AbsInt(a) == IF a < 0 THEN -a ELSE a

\* The fraction n / d, d # 0, in lowest terms.
Frac(n, d) ==
    LET g == Gcd(AbsInt(n), AbsInt(d))
        sign == IF d < 0 THEN -1 ELSE 1
    IN  [n |-> (sign * n) \div g, d |-> (sign * d) \div g]
Plus(a, b) == Frac(a.n * b.d + b.n * a.d, a.d * b.d)
Minus(a, b) == Frac(a.n * b.d - b.n * a.d, a.d * b.d)
Times(a, b) == Frac(a.n * b.n, a.d * b.d)
Over(a, b) == Frac(a.n * b.d, a.d * b.n)
Less(a, b) == a.n * b.d < b.n * a.d

\* mapStore.ts, lines 7-8.
MIN_ZOOM == Frac(1, 20)
MAX_ZOOM == Whole(8)

\* mapStore.ts, lines 43-45: Math.min(Math.max(value, min), max).
clamp(value, min, max) ==
    LET low == IF Less(value, min) THEN min ELSE value
    IN  IF Less(max, low) THEN max ELSE low

\* mapStore.ts, lines 107-112.
screenToWorld(cam, screenX, screenY) ==
    [x |-> Plus(Over(Minus(screenX, Frac(CanvasSize.width, 2)), cam.zoom), cam.x),
     z |-> Plus(Over(Minus(screenY, Frac(CanvasSize.height, 2)), cam.zoom), cam.z)]

\* mapStore.ts, lines 47-72: getCameraLimits; null without an index.
getCameraLimits(cam, index) ==
    IF index = <<>> THEN <<>>
    ELSE LET halfWidth == Over(Frac(CanvasSize.width, 2), cam.zoom)
             halfHeight == Over(Frac(CanvasSize.height, 2), cam.zoom)
             worldMinX == Whole(index[1].minX)
             worldMaxX == Whole(index[1].maxX + TILE_SIZE)
             worldMinZ == Whole(index[1].minZ)
             worldMaxZ == Whole(index[1].maxZ + TILE_SIZE)
             minX == Plus(worldMinX, halfWidth)
             maxX == Minus(worldMaxX, halfWidth)
             minZ == Plus(worldMinZ, halfHeight)
             maxZ == Minus(worldMaxZ, halfHeight)
             midX == Over(Plus(worldMinX, worldMaxX), Whole(2))
             midZ == Over(Plus(worldMinZ, worldMaxZ), Whole(2))
             okX == ~Less(maxX, minX)
             okZ == ~Less(maxZ, minZ)
         IN  <<[minX |-> IF okX THEN minX ELSE midX, maxX |-> IF okX THEN maxX ELSE midX,
                minZ |-> IF okZ THEN minZ ELSE midZ, maxZ |-> IF okZ THEN maxZ ELSE midZ]>>

\* mapStore.ts, lines 74-81.
clampCameraPosition(cam, index) ==
    LET limits == getCameraLimits(cam, index)
    IN  IF limits = <<>> THEN cam
        ELSE [cam EXCEPT !.x = clamp(@, limits[1].minX, limits[1].maxX),
                         !.z = clamp(@, limits[1].minZ, limits[1].maxZ)]

\* mapStore.ts, lines 178-194: setZoom about a point of the screen.
setZoom(cam, index, newZoom, centerX, centerY) ==
    LET clampedZoom == clamp(newZoom, MIN_ZOOM, MAX_ZOOM)
        worldBefore == screenToWorld(cam, centerX, centerY)
        zoomed == [cam EXCEPT !.zoom = clampedZoom]
        worldAfter == screenToWorld(zoomed, centerX, centerY)
    IN  clampCameraPosition(
            [zoomed EXCEPT !.x = Plus(@, Minus(worldBefore.x, worldAfter.x)),
                           !.z = Plus(@, Minus(worldBefore.z, worldAfter.z))], index)

\* Map.prototype.set on touches: a tracked identifier keeps its place.
setTouch(m, t) ==
    IF \E i \in DOMAIN m : m[i].id = t.id
    THEN [i \in DOMAIN m |-> IF m[i].id = t.id THEN t ELSE m[i]]
    ELSE Append(m, t)

RECURSIVE setTouches(_, _)
setTouches(m, changed) ==
    IF changed = <<>> THEN m ELSE setTouches(setTouch(m, Head(changed)), Tail(changed))

\* getTouchDistance, lines 669-673; the square root is whole for the points of TouchPoints.
getTouchDistance(touch1, touch2) ==
    LET dx == touch1.x - touch2.x
        dy == touch1.y - touch2.y
    IN  CHOOSE r \in 0..(AbsInt(dx) + AbsInt(dy)) : r * r = dx * dx + dy * dy

\* getTouchCenter, lines 676-681.
getTouchCenter(touch1, touch2) ==
    [x |-> Frac(touch1.x + touch2.x, 2), y |-> Frac(touch1.y + touch2.y, 2)]

\* updateMouseWorldCoord, lines 539-548, of the first touch of the list.
withMouseCoord(t) ==
    IF Len(t.touches) > 0
    THEN [t EXCEPT !.mouseWorldCoord =
             screenToWorld(t.camera, Whole(t.touches[1].x), Whole(t.touches[1].y))]
    ELSE t

\* onTouchStart, lines 684-728, marker-pick mode off.
onTouchStart(t, changed) ==
    LET touchList == setTouches(t.touches, changed)
        tracked == [t EXCEPT !.touches = touchList]
    IN  withMouseCoord(
          IF Len(touchList) = 1
          THEN [tracked EXCEPT
                  !.isDragging = TRUE,
                  !.dragStart = <<[x |-> touchList[1].x, y |-> touchList[1].y]>>,
                  !.cameraStart = <<[x |-> t.camera.x, z |-> t.camera.z]>>]
          ELSE IF Len(touchList) = 2
          THEN [tracked EXCEPT
                  !.isDragging = FALSE,
                  !.lastTouchDistance = getTouchDistance(touchList[1], touchList[2]),
                  !.lastTouchCenter = <<getTouchCenter(touchList[1], touchList[2])>>]
          ELSE tracked)

\* onTouchMove, lines 731-783: only tracked touches are updated.
onTouchMove(t, changed) ==
    LET known == SelectSeq(changed, LAMBDA c : \E i \in DOMAIN t.touches : t.touches[i].id = c.id)
        touchList == setTouches(t.touches, known)
        tracked == [t EXCEPT !.touches = touchList]
    IN  withMouseCoord(
          IF Len(touchList) = 1 /\ t.isDragging /\ t.cameraStart # <<>> /\ t.dragStart # <<>>
          THEN LET dx == Over(Whole(touchList[1].x - t.dragStart[1].x), t.camera.zoom)
                   dy == Over(Whole(touchList[1].y - t.dragStart[1].y), t.camera.zoom)
               IN  [tracked EXCEPT
                      !.camera = clampCameraPosition(
                                    [t.camera EXCEPT !.x = Minus(t.cameraStart[1].x, dx),
                                                     !.z = Minus(t.cameraStart[1].z, dy)],
                                    t.index)]
          ELSE IF Len(touchList) = 2
          THEN LET currentDistance == getTouchDistance(touchList[1], touchList[2])
                   currentCenter == getTouchCenter(touchList[1], touchList[2])
                   scale == Frac(currentDistance, t.lastTouchDistance)
               IN  [tracked EXCEPT
                      !.camera = IF t.lastTouchDistance > 0
                                 THEN setZoom(t.camera, t.index, Times(t.camera.zoom, scale),
                                              currentCenter.x, currentCenter.y)
                                 ELSE @,
                      !.lastTouchDistance = currentDistance,
                      !.lastTouchCenter = <<currentCenter>>]
          ELSE tracked)

\* onTouchEnd, lines 786-813.
onTouchEnd(t, ended) ==
    LET touchList == SelectSeq(t.touches, LAMBDA c : c.id \notin ended)
        tracked == [t EXCEPT !.touches = touchList]
    IN  IF Len(touchList) = 0
        THEN [tracked EXCEPT !.isDragging = FALSE, !.dragStart = <<>>, !.cameraStart = <<>>,
                             !.lastTouchDistance = 0, !.lastTouchCenter = <<>>]
        ELSE IF Len(touchList) = 1
        THEN [tracked EXCEPT
                !.lastTouchDistance = 0,
                !.lastTouchCenter = <<>>,
                !.isDragging = TRUE,
                !.dragStart = <<[x |-> touchList[1].x, y |-> touchList[1].y]>>,
                !.cameraStart = <<[x |-> t.camera.x, z |-> t.camera.z]>>]
        ELSE tracked

\* onTouchCancel, lines 816-824.
onTouchCancel(t) ==
    [t EXCEPT !.touches = <<>>, !.isDragging = FALSE, !.dragStart = <<>>,
              !.cameraStart = <<>>, !.lastTouchDistance = 0, !.lastTouchCenter = <<>>]

\* The identifiers of the touches on the screen.
TouchIdsOf(t) == {t.touches[i].id : i \in DOMAIN t.touches}

\* The changedTouches of an event: the touches of a set of identifiers, in the order of the
\* identifiers, each at a point.
RECURSIVE Ascending(_)
Ascending(S) == IF S = {} THEN <<>> ELSE <<SetMin(S)>> \o Ascending(S \ {SetMin(S)})
ChangedTouches(ids) ==
    {[i \in 1..Cardinality(ids) |->
         [id |-> Ascending(ids)[i], x |-> at[Ascending(ids)[i]][1], y |-> at[Ascending(ids)[i]][2]]] :
       at \in [ids -> TouchPoints]}

TouchInit ==
    /\ pc = "touch"
    /\ \E index \in TouchIndexes : touch = [NoTouch EXCEPT !.index = index]
    /\ loader = NoLoader
    /\ pipeline = NoPipeline
    /\ prefix = DefaultPrefix
    /\ dirs = NoDirs
    /\ log = <<>>
    /\ PoolIdle
    /\ QueryIdle
    /\ ProcessIdle
    /\ PyramidIdle
    /\ DiskIdle
    /\ MergeSideIdle

\* A touchstart event: one or two fingers come down together.
TouchStart ==
    /\ pc = "touch"
    /\ touch.events < MaxTouchEvents
    /\ \E ids \in SUBSET ((1..MaxTouches) \ TouchIdsOf(touch)) :
          /\ Cardinality(ids) \in {1, 2}
          /\ \E changed \in ChangedTouches(ids) :
                touch' = [onTouchStart(touch, changed) EXCEPT !.events = @ + 1]
    /\ UNCHANGED <<scriptVars, pipeline, loader, prefix>>

\* A touchmove event: one finger moves.
TouchMove ==
    /\ pc = "touch"
    /\ touch.events < MaxTouchEvents
    /\ \E id \in TouchIdsOf(touch) : \E changed \in ChangedTouches({id}) :
          touch' = [onTouchMove(touch, changed) EXCEPT !.events = @ + 1]
    /\ UNCHANGED <<scriptVars, pipeline, loader, prefix>>

\* A touchend event: some of the fingers are lifted.
TouchEnd ==
    /\ pc = "touch"
    /\ touch.events < MaxTouchEvents
    /\ \E ended \in SUBSET TouchIdsOf(touch) :
          /\ ended # {}
          /\ touch' = [onTouchEnd(touch, ended) EXCEPT !.events = @ + 1]
    /\ UNCHANGED <<scriptVars, pipeline, loader, prefix>>

\* A touchcancel event.
TouchCancel ==
    /\ pc = "touch"
    /\ touch.events < MaxTouchEvents
    /\ touch.touches # <<>>
    /\ touch' = [onTouchCancel(touch) EXCEPT !.events = @ + 1]
    /\ UNCHANGED <<scriptVars, pipeline, loader, prefix>>

TouchNext == TouchStart \/ TouchMove \/ TouchEnd \/ TouchCancel

SpecTouch == TouchInit /\ [][TouchNext]_vars

\* C39: isDragging is true only while exactly one touch is tracked, and while no touch is
\* tracked (after the last touch ended, after a touchcancel) isDragging is false and dragStart
\* and cameraStart are null.
C39_DragOnlyWithOneTouch ==
    pc = "touch" =>
       /\ touch.isDragging => Len(touch.touches) = 1
       /\ Len(touch.touches) = 0 =>
             ~touch.isDragging /\ touch.dragStart = <<>> /\ touch.cameraStart = <<>>

====
